---------------------------- MODULE Spec2Model ----------------------------
(***************************************************************************)
(* LM Buddy orchestration core: the conversation engine (core/engine.py)   *)
(* and the streaming client (core/llm_handler.py).                         *)
(*                                                                         *)
(* The GUI thread calls the engine's operations; every request runs        *)
(* stream_llm_response on a thread of its own.  The threads share the      *)
(* list context_history, the queue gui_queue and the event app_stop_event. *)
(* A thread can be pre-empted between any two accesses to shared state, so *)
(* stream_llm_response is cut into one action per such access.             *)
(*                                                                         *)
(* Texts that the code inspects character by character are sequences of    *)
(* one-character strings.  Python's None is the value None in a slot that  *)
(* holds a text or an image, and NoAction in the slot of the action key.   *)
(***************************************************************************)
EXTENDS Integers, Sequences, FiniteSets, TLC

(***************************************************************************)
(* Bounds of the model.                                                    *)
(***************************************************************************)
\* Number of requests (worker threads) started in one run.
MaxWorkers == 2
\* Number of requests started in a run that looks at the requests one by one.
SoloWorkers == 1
\* Number of lines the provider delivers in one run, over all its streams.
MaxLines == 2
\* Number of engine calls that start no thread (rejected questions, clears).
MaxEngineCalls == 1
\* Number of polling threads start_listener starts in one run.
MaxListeners == 2
\* Number of capture threads the hotkey starts in one run.
MaxCaptures == 2
\* Number of times the key combination is pressed in one run.
MaxPresses == 2
\* Length of a run on the clock, in tenths of a second.
MaxTime == 38
\* Length of the texts whose tokens are counted on their own.
MaxTextLen == 5

Workers == 1..MaxWorkers
\* Producer 0 is the GUI thread, in which the engine's operations run.
ENGINE == 0
\* The threads that run perform_screenshot_and_ocr, numbered after the workers.
Captures == (MaxWorkers + 1)..(MaxWorkers + MaxCaptures)
Producers == ({ENGINE} \cup Workers) \cup Captures
\* The polling threads of the hotkey manager.
Listeners == 1..MaxListeners
\* self._listener_thread = None
NoThread == 0

None == <<"None">>
NoAction == "None"
\* A captured window image (an opaque PIL.Image object).
Img == <<"img">>

VARIABLES
    context_history,    \* engine.context_history: list of turns
    gui_queue,          \* gui_queue[p]: the messages producer p has put, in order
    app_stop_event,     \* threading.Event APP_STOP_EVENT
    ocr_text_buffer,    \* engine.ocr_text_buffer
    last_image_buffer,  \* engine.last_image_buffer
    last_action_was_ocr_initiated,
    config,             \* the configuration values the core reads
    tokenizer,          \* llm_handler._llm_tokenizer_instance
    pc,                 \* pc[w]: where thread w is in stream_llm_response
    args,               \* args[w]: the arguments thread w was started with
    frame,              \* frame[w]: the local variables of thread w
    lines_delivered,    \* the number of lines the response streams have delivered
    observed,           \* observed[w]: Len(gui_queue[w]) + 1 when w saw the stop event set, else 0
    cleared,            \* TRUE once clear_all_context_and_buffers has run
    now,                \* time.time(), in tenths of a second
    key_down,           \* the key combination is held down
    press_id,           \* the number of presses of the combination so far
    hotkey_config,      \* the value of 'hotkey' in the configuration
    provider,           \* the kind of server behind config.llm_endpoint
    hotkey_str,         \* hotkey_mgr._hotkey_str
    is_valid_hotkey,    \* hotkey_mgr._is_valid_hotkey
    last_pressed_time,  \* hotkey_mgr._last_pressed_time
    listener_thread,    \* hotkey_mgr._listener_thread: a polling thread or NoThread
    lpc,                \* lpc[t]: where polling thread t is in _listener_worker
    gui_pc,             \* where the GUI thread is: "idle", or "joining" in stop_listener
    returned,           \* what the last call of start_listener returned
    cpc,                \* cpc[c]: where capture thread c is in perform_screenshot_and_ocr
    triggers,           \* the callbacks started: the time, the press and the polling thread
    tok,                \* a call of count_text_tokens: its argument and what it returned
    conv                \* a call of convert_image_to_base64_str: its arguments and locals

core_vars == <<context_history, gui_queue, app_stop_event, ocr_text_buffer,
               last_image_buffer, last_action_was_ocr_initiated, config, tokenizer,
               pc, args, frame, lines_delivered, observed, cleared>>

\* The clock, the keyboard, the configured hotkey and the LLM server.
env_vars == <<now, key_down, press_id, hotkey_config, provider>>

\* The hotkey manager, its threads and the threads its callback starts.
hk_vars == <<hotkey_str, is_valid_hotkey, last_pressed_time, listener_thread,
             lpc, gui_pc, returned, cpc, triggers>>

\* The calls of the helpers of llm_handler.py that are looked at on their own.
util_vars == <<tok, conv>>

vars == <<core_vars, env_vars, hk_vars, util_vars>>

(***************************************************************************)
(* Python helpers.                                                         *)
(***************************************************************************)
\* Truth value of an optional text, list or image: None and the empty
\* sequence are false.
Truthy(x) == x # None /\ x # <<>>

IsSpace(c) == c = " "

RECURSIVE LStrip(_)
LStrip(s) == IF s = <<>> THEN s
             ELSE IF IsSpace(Head(s)) THEN LStrip(Tail(s)) ELSE s

RECURSIVE RStrip(_)
RStrip(s) == IF s = <<>> THEN s
             ELSE IF IsSpace(s[Len(s)]) THEN RStrip(SubSeq(s, 1, Len(s) - 1)) ELSE s

\* str.strip()
Strip(s) == RStrip(LStrip(s))

\* str.startswith("[")
StartsWithBracket(s) == s # <<>> /\ Head(s) = "["

\* x in s, for a fixed phrase x of a prompt template
Contains(s, x) == \E i \in 1..Len(s) : s[i] = x

\* s.replace(x, y), for a fixed phrase x of a prompt template
Replace(s, x, y) == [i \in 1..Len(s) |-> IF s[i] = x THEN y ELSE s[i]]

RECURSIVE SumSeq(_)
SumSeq(s) == IF s = <<>> THEN 0 ELSE Head(s) + SumSeq(Tail(s))

(***************************************************************************)
(* Token counting (llm_handler.py).                                        *)
(***************************************************************************)
NoTokenizer == "NoTokenizer"
\* A loaded tokenizer; the stand-in encodes one token per character.
CharTokenizer == "CharTokenizer"

\* len(text): a text is a sequence of pieces, each a string of one
\* character (text typed by the user or sent by the provider) or a fixed
\* phrase of the program.
TextLen(text) == SumSeq([i \in 1..Len(text) |-> Len(text[i])])

\* 117-118, 120-122: the approximation by the number of characters
char_count_fallback(text_to_tokenize) == TextLen(text_to_tokenize) \div 4

\* 110-123; what is not a string (None) counts 0
count_text_tokens(text_to_tokenize) ==
    IF text_to_tokenize = None
    THEN 0
    ELSE IF tokenizer # NoTokenizer
    THEN TextLen(text_to_tokenize)
    ELSE char_count_fallback(text_to_tokenize)

PartTokens(part) ==
    IF part.type = "text" THEN count_text_tokens(part.text) ELSE 0

ContentTokens(content) ==
    IF content.kind = "str"
    THEN count_text_tokens(content.text)
    ELSE SumSeq([i \in 1..Len(content.parts) |-> PartTokens(content.parts[i])])

count_tokens_for_api_messages(api_messages) ==
    SumSeq([i \in 1..Len(api_messages) |-> ContentTokens(api_messages[i].content)])

(***************************************************************************)
(* Messages on the channel.                                                *)
(***************************************************************************)
\* gui_queue.put(None)
Sentinel == [type |-> "Sentinel"]
Info(c) == [type |-> "Info", content |-> c]
Error(c) == [type |-> "Error", content |-> c]
PromptTokensUpdate(n) == [type |-> "PromptTokensUpdate", count |-> n]
FinalTokenCounts(p, c, t) ==
    [type |-> "FinalTokenCounts", prompt_tokens |-> p,
     completion_tokens |-> c, total_tokens |-> t]
Chunk(c, n) == [type |-> "Chunk", content |-> c, completion_tokens_live |-> n]
FullResponse(c) == [type |-> "FullResponse", content |-> c]

\* gui_queue.put(m1); gui_queue.put(m2); ... by producer p
Put(p, msgs) == gui_queue' = [gui_queue EXCEPT ![p] = @ \o msgs]

(***************************************************************************)
(* Content parts and turns.                                                *)
(***************************************************************************)
TextPart(t) == [type |-> "text", text |-> t]
\* convert_image_to_base64_str: the data URL of the encoded image.
DataUrlOf(pil_image) == <<"data:image/jpeg;base64,">> \o pil_image
\* {"type": "image_url", "image_url": {"url": <data URL of the image>}}
ImagePart(pil_image) == [type |-> "image_url", image_url |-> DataUrlOf(pil_image)]

StrContent(t) == [kind |-> "str", text |-> t]
PartsContent(p) == [kind |-> "parts", parts |-> p]

\* A tuple (role, content, pil_image) of context_history.  The field req
\* (not in the code) names the thread that appended it.
Turn(role, content, image, w) ==
    [role |-> role, content |-> content, image |-> image, req |-> w]

INFO_MSG == <<"[", "Context set. Please type your question to the LLM.", "]">>

(***************************************************************************)
(* Inputs.                                                                 *)
(***************************************************************************)
\* Texts given to process_direct_question.
Questions == {None, <<>>, <<" ", " ">>, <<" ", "w", "h", "y", "?">>}

\* (action_key, ocr_text, image_pil, target_language) given to process_ocr_action.
OcrActions ==
    { <<"summarize", <<"o", "c", "r", "!">>, Img, None>>,
      <<"translate", <<"o", "c", "r", "!">>, None, <<>> >>,
      <<"set_context_for_question", <<"o", "c", "r", "!">>, None, None>> }

\* Configurations the run starts with.
Configs ==
    [enable_vision_if_available : BOOLEAN,
     llm_endpoint : {<<>>, <<"http://127.0.0.1:1234/v1/chat/completions">>},
     system_prompt_global : {<<"You are LM Buddy.">>},
     avatar_system_prompt_override : {<<>>}]

Tokenizers == {NoTokenizer}

\* Text deltas the provider streams.
Deltas == {<<"P", "a", "r", "i", "s">>}
\* Deltas of fewer than four characters, which the fallback counts as 0.
ShortDeltas == {<<"a", "b", "c">>}

\* Lines of a response stream: blank lines, lines without the "data: "
\* prefix, the end marker, payloads that are no JSON, and JSON payloads
\* with or without a delta and a usage figure.
Lines ==
    {[kind |-> "blank"], [kind |-> "other"], [kind |-> "done"], [kind |-> "badjson"]}
    \cup [kind : {"json"}, delta : Deltas \cup ShortDeltas \cup {None},
           has_usage : {FALSE}, total_tokens : {0}]
    \cup [kind : {"json"}, delta : {None}, has_usage : {TRUE}, total_tokens : {3, 9}]

\* A steady server sends well-formed payloads, deltas of one size and one
\* usage figure; an erratic one may send any line.
Providers == {"steady", "erratic"}

LinesOf(server) ==
    IF server = "erratic"
    THEN Lines
    ELSE {line \in Lines : /\ line.kind # "badjson"
                           /\ line.kind = "json" =>
                                 /\ line.total_tokens \in {0, 9}
                                 /\ line.delta \notin ShortDeltas}

(***************************************************************************)
(* The hotkey manager (core/hotkey_manager.py).  Time is counted in tenths *)
(* of a second.                                                            *)
(***************************************************************************)
\* self._debounce_time = 1.2 seconds
debounce_time == 12

\* A hotkey string is the sequence of the key names that "+" separates.
KnownKeys == {"ctrl", "shift", "alt", "f"}
DefaultHotkey == <<"ctrl", "shift", "f">>
\* Values of 'hotkey' in the configuration: missing, well formed, malformed.
HotkeyConfigs == {None, DefaultHotkey, <<"ctrl", "">>}

\* keyboard.parse_hotkey(s) returns; it raises ValueError otherwise.
ParsesAsHotkey(s) == s # <<>> /\ \A i \in 1..Len(s) : s[i] \in KnownKeys

\* load_hotkey_from_config: the values it leaves in _hotkey_str and
\* _is_valid_hotkey; it returns the former.
load_hotkey_from_config(configured) ==
    IF ~Truthy(configured)
    THEN [hotkey_str |-> None, is_valid_hotkey |-> FALSE]
    ELSE IF ParsesAsHotkey(configured)
         THEN [hotkey_str |-> configured, is_valid_hotkey |-> TRUE]
         ELSE [hotkey_str |-> None, is_valid_hotkey |-> FALSE]

\* threading.Thread.is_alive()
is_alive(t) == lpc[t] \notin {"unborn", "done", "done_critical"}

\* MSG_TYPE_OCR_RESULT_FOR_ACTIONS and MSG_TYPE_OCR_ACTIONS_HIDE
CapturedContent(ocr_text, image_pil) ==
    [type |-> "CapturedContent", ocr_text |-> ocr_text, image_pil |-> image_pil]
HideCaptureActions == [type |-> "HideCaptureActions"]

\* The locals of perform_screenshot_and_ocr
NoCapture ==
    [pc |-> "unborn", image_pil |-> None, ocr_attempted |-> FALSE,
     err_msg_ocr |-> None]

\* The state HotkeyManager.__init__ and the first start_listener of
\* LMBuddyCoreEngine.__init__ leave, for a configured hotkey.
HotkeyInitWith(configured) ==
    LET loaded == load_hotkey_from_config(configured)
    IN  /\ now = debounce_time + 1
        /\ key_down = FALSE
        /\ press_id = 0
        /\ hotkey_config = configured
        /\ hotkey_str = loaded.hotkey_str
        /\ is_valid_hotkey = loaded.is_valid_hotkey
        /\ last_pressed_time = 0
        /\ listener_thread = IF loaded.is_valid_hotkey THEN 1 ELSE NoThread
        /\ lpc = [t \in Listeners |->
                    IF t = 1 /\ loaded.is_valid_hotkey THEN "start" ELSE "unborn"]
        /\ gui_pc = "idle"
        /\ returned = IF loaded.is_valid_hotkey THEN "True" ELSE "False"
        /\ cpc = [c \in Captures |-> NoCapture]
        /\ triggers = <<>>

\* engine.py 73-76: the message the engine posts when the listener did not start
ListenerFailedError ==
    Error(<<"Critical: Hotkey listener failed to start. Check logs/config.">>)

(***************************************************************************)
(* count_text_tokens and convert_image_to_base64_str (core/llm_handler.py) *)
(* called on their own.                                                    *)
(***************************************************************************)
\* No call of count_text_tokens is looked at.
NoTok == [text_to_tokenize |-> None, called |-> FALSE, result |-> 0]

\* def convert_image_to_base64_str(pil_image, quality=75, max_size_kb=500)
DefaultQuality == 75
DefaultMaxSizeKb == 500

\* What is passed for an image that is none.
NotAnImage == <<"not an image">>

\* The locals of convert_image_to_base64_str; encodes (not in the code) lists
\* the qualities of the JPEG saves, in order.
NoConv ==
    [pc |-> "idle", pil_image |-> None, quality |-> 0, max_size_kb |-> 0,
     is_jpeg |-> FALSE, image_format_used |-> "PNG", current_quality |-> 0,
     img_byte_size |-> 0, buffer |-> "empty", buffer_quality |-> 0,
     encodes |-> <<>>,
     data_url |-> [mime_type |-> "none", buffer |-> "empty", buffer_quality |-> 0]]

(***************************************************************************)
(* Initial state: LMBuddyCoreEngine.__init__ has run, no request yet.      *)
(***************************************************************************)
NoArgs ==
    [current_user_message_parts |-> <<>>, is_direct_question |-> FALSE,
     specific_action |-> NoAction, pil_image_obj |-> None,
     target_language |-> None]

\* The locals of stream_llm_response.  Not in the code: usage_seen holds the
\* usage figures of the payloads handled, and skipped_at is
\* Len(gui_queue[w]) + 1 when the thread first dropped a payload that is no
\* JSON, else 0.
NoFrame ==
    [prompt_tokens |-> 0, full_response_text |-> <<>>,
     completion_tokens_calculated |-> 0, server_reported_total_tokens |-> 0,
     exc |-> "none", api_payload_messages |-> <<>>,
     usage_seen |-> {}, skipped_at |-> 0]

\* Of the threads 1..MaxWorkers a run may start the first n.
CoreInitWith(n, tokenizers) ==
    /\ context_history = <<>>
    /\ gui_queue = [p \in Producers |-> <<>>]
    /\ app_stop_event = FALSE
    /\ ocr_text_buffer = None
    /\ last_image_buffer = None
    /\ last_action_was_ocr_initiated = FALSE
    /\ config \in Configs
    /\ tokenizer \in tokenizers
    /\ pc = [w \in Workers |-> IF w <= n THEN "unborn" ELSE "unused"]
    /\ args = [w \in Workers |-> NoArgs]
    /\ frame = [w \in Workers |-> NoFrame]
    /\ lines_delivered = 0
    /\ observed = [w \in Workers |-> 0]
    /\ cleared = FALSE

\* The first n threads may run against a server of one of the given kinds.
InitFor(n, servers) ==
    /\ CoreInitWith(n, Tokenizers)
    /\ HotkeyInitWith(DefaultHotkey)
    /\ tok = NoTok
    /\ conv = NoConv
    /\ provider \in servers

InitWith(n) == InitFor(n, {"steady"})

Init == InitWith(MaxWorkers)

InitSolo == InitFor(SoloWorkers, Providers)

(***************************************************************************)
(* The engine's operations (core/engine.py), run by the GUI thread.        *)
(***************************************************************************)
\* threading.Thread(target=llm_handler.stream_llm_response, args=a).start():
\* threads are numbered in the order they are started.
CanSpawn == \E w \in Workers : pc[w] = "unborn"
NextWorker == CHOOSE w \in Workers : pc[w] = "unborn" /\ \A v \in Workers : pc[v] = "unborn" => w <= v
Spawn(a) ==
    /\ pc' = [pc EXCEPT ![NextWorker] = "start"]
    /\ args' = [args EXCEPT ![NextWorker] = a]

\* The calls that started no thread each left one Info or Error message.
EngineCalls ==
    Cardinality({i \in 1..Len(gui_queue[ENGINE]) :
                    gui_queue[ENGINE][i].type \in {"Info", "Error"}})

\* Mutant: the question is tested without strip().
process_direct_question_unstripped(question_text) ==
    IF ~Truthy(question_text)
    THEN /\ EngineCalls < MaxEngineCalls
         /\ Put(ENGINE, <<Error(<<"Cannot process an empty question.">>)>>)
         /\ UNCHANGED <<context_history, app_stop_event, ocr_text_buffer,
                        last_image_buffer, last_action_was_ocr_initiated,
                        config, tokenizer, pc, args, frame, lines_delivered,
                        observed, cleared>>
    ELSE /\ CanSpawn
         /\ last_action_was_ocr_initiated' = FALSE
         /\ Spawn([current_user_message_parts |-> <<TextPart(question_text)>>,
                   is_direct_question |-> TRUE,
                   specific_action |-> NoAction,
                   pil_image_obj |-> None,
                   target_language |-> None])
         /\ UNCHANGED <<context_history, gui_queue, app_stop_event,
                        ocr_text_buffer, last_image_buffer, config, tokenizer,
                        frame, lines_delivered, observed, cleared>>

process_direct_question(question_text) ==
    IF ~Truthy(question_text) \/ ~Truthy(Strip(question_text))
    THEN /\ EngineCalls < MaxEngineCalls
         /\ Put(ENGINE, <<Error(<<"Cannot process an empty question.">>)>>)
         /\ UNCHANGED <<context_history, app_stop_event, ocr_text_buffer,
                        last_image_buffer, last_action_was_ocr_initiated,
                        config, tokenizer, pc, args, frame, lines_delivered, observed, cleared>>
    ELSE /\ CanSpawn
         /\ last_action_was_ocr_initiated' = FALSE
         /\ Spawn([current_user_message_parts |-> <<TextPart(question_text)>>,
                   is_direct_question |-> TRUE,
                   specific_action |-> NoAction,
                   pil_image_obj |-> None,
                   target_language |-> None])
         /\ UNCHANGED <<context_history, gui_queue, app_stop_event,
                        ocr_text_buffer, last_image_buffer, config, tokenizer,
                        frame, lines_delivered, observed, cleared>>

\* The blocks that quote the OCR text.
OcrBlockContext(ocr_text) == <<"\n\nOCR-", "Text", ":\n---\n">> \o ocr_text \o <<"\n---">>
OcrBlock(ocr_text) == <<"\n\nExtrahierter ", "Text", ":\n\"\"\"">> \o ocr_text \o <<"\"\"\"">>

\* engine.py 192-202: the prompt of the action.
ActionTemplate(action_key, ocr_text, target_language) ==
    CASE action_key = "summarize" ->
            <<"Fasse den folgenden Inhalt ", "(Text/Bild)", " prägnant zusammen.">>
      [] action_key = "help" ->
            <<"Ich benötige Hilfe zum folgenden Inhalt ", "(Text/Bild)",
              ". Gib eine verständliche Hilfestellung.">>
      [] action_key = "improve_text" /\ Truthy(ocr_text) ->
            <<"Bitte verbessere den folgenden ", "Text", ":">>
      [] action_key = "analyze_image" ->
            <<"Analysiere das folgende ", "Bild", " detailliert.">>
      [] action_key = "bullet_points" ->
            <<"Extrahiere die wichtigsten Informationen aus dem folgenden Inhalt ",
              "(Text/Bild)", " als Stichpunkte.">>
      [] action_key = "translate" /\ Truthy(target_language) ->
            <<"Übersetze den folgenden ", "Text", " (oder beschreibe das ", "Bild",
              " und übersetze die Beschreibung) in die Sprache: ">>
            \o target_language \o <<".">>
      [] action_key = "set_context_for_question" ->
            <<"Der folgende Inhalt ", "(Text/Bild)",
              " dient als Kontext für meine nächste Frage:">>
            \o (IF Truthy(ocr_text) THEN OcrBlockContext(ocr_text) ELSE <<>>)
      [] OTHER ->
            <<"Analysiere den folgenden Inhalt ", "(Text/Bild)",
              " und gib eine kurze Hilfestellung/Zusammenfassung.">>

\* engine.py 204-213: the OCR text appended, the wording adjusted.
action_description_prompt(action_key, ocr_text, image_pil, target_language) ==
    LET t == ActionTemplate(action_key, ocr_text, target_language)
        p == IF Truthy(ocr_text) /\ action_key # "set_context_for_question"
             THEN t \o OcrBlock(ocr_text) ELSE t
    IN  IF ~Truthy(image_pil) /\ Contains(p, "(Text/Bild)")
        THEN Replace(p, "(Text/Bild)", "(Text)")
        ELSE IF ~Truthy(image_pil) /\ Contains(p, "Bild") /\ ~Contains(p, "Text")
        THEN <<"Aktion nicht möglich, da kein ", "Bild", " vorhanden.">>
             \o (IF Truthy(ocr_text)
                 THEN <<" Dennoch hier der extrahierte ", "Text", ":\n\"\"\"">>
                      \o ocr_text \o <<"\"\"\"">>
                 ELSE <<>>)
        ELSE p

process_ocr_action(action_key, ocr_text, image_pil, target_language) ==
    LET image_parts ==
            IF Truthy(image_pil) /\ config.enable_vision_if_available
            THEN <<ImagePart(image_pil)>> ELSE <<>>
        current_message_parts ==
            image_parts \o
            <<TextPart(action_description_prompt(action_key, ocr_text, image_pil,
                                                target_language))>>
    IN  /\ CanSpawn
        /\ ocr_text_buffer' = ocr_text
        /\ last_image_buffer' = image_pil
        /\ last_action_was_ocr_initiated' = TRUE
        /\ Spawn([current_user_message_parts |-> current_message_parts,
                  is_direct_question |-> FALSE,
                  specific_action |-> action_key,
                  pil_image_obj |-> image_pil,
                  target_language |-> target_language])
        /\ UNCHANGED <<context_history, gui_queue, app_stop_event, config,
                       tokenizer, frame, lines_delivered, observed, cleared>>

\* The clearing when it empties the history alone.
clear_all_context_and_buffers_history_only ==
    /\ EngineCalls < MaxEngineCalls
    /\ context_history' = <<>>
    /\ Put(ENGINE, <<Info(<<"Context and buffers cleared.">>),
                     PromptTokensUpdate(0), FinalTokenCounts(0, 0, 0)>>)
    /\ cleared' = TRUE
    /\ UNCHANGED <<app_stop_event, ocr_text_buffer, last_image_buffer,
                   last_action_was_ocr_initiated, config, tokenizer, pc, args,
                   frame, lines_delivered, observed>>

\* engine.py 95-110
clear_all_context_and_buffers ==
    /\ EngineCalls < MaxEngineCalls
    /\ context_history' = <<>>
    /\ ocr_text_buffer' = None
    /\ last_image_buffer' = None
    /\ last_action_was_ocr_initiated' = FALSE
    /\ Put(ENGINE, <<Info(<<"Context and buffers cleared.">>),
                     PromptTokensUpdate(0), FinalTokenCounts(0, 0, 0)>>)
    /\ cleared' = TRUE
    /\ UNCHANGED <<app_stop_event, config, tokenizer, pc, args, frame, lines_delivered, observed>>


(***************************************************************************)
(* stream_llm_response (core/llm_handler.py), run by thread w.             *)
(***************************************************************************)
Append2(turn) == context_history' = Append(context_history, turn)

UserTurn(w) ==
    Turn("user", PartsContent(args[w].current_user_message_parts),
         IF Truthy(args[w].pil_image_obj) THEN args[w].pil_image_obj ELSE None, w)

\* 266-269: the context-setting action appends the user turn ...
Stream_set_context_user(w) ==
    /\ pc[w] = "start"
    /\ args[w].specific_action = "set_context_for_question"
    /\ Append2(UserTurn(w))
    /\ pc' = [pc EXCEPT ![w] = "ctx_assistant"]
    /\ UNCHANGED <<gui_queue, app_stop_event, ocr_text_buffer, last_image_buffer,
                   last_action_was_ocr_initiated, config, tokenizer, args,
                   frame, lines_delivered, observed, cleared>>

\* 270-271: ... then the assistant turn that holds the marker ...
Stream_set_context_assistant(w) ==
    /\ pc[w] = "ctx_assistant"
    /\ Append2(Turn("assistant", StrContent(INFO_MSG), None, w))
    /\ pc' = [pc EXCEPT ![w] = "ctx_post"]
    /\ UNCHANGED <<gui_queue, app_stop_event, ocr_text_buffer, last_image_buffer,
                   last_action_was_ocr_initiated, config, tokenizer, args,
                   frame, lines_delivered, observed, cleared>>

\* Mutant: the prompt tokens are counted over the history as well.
Stream_set_context_post_history(w) ==
    LET prompt_tokens ==
            count_tokens_for_api_messages(
                [i \in 1..Len(context_history) |->
                    [role |-> context_history[i].role,
                     content |-> context_history[i].content]]
                \o <<[role |-> "user",
                      content |-> PartsContent(args[w].current_user_message_parts)]>>)
    IN  /\ pc[w] = "ctx_post"
        /\ Put(w, <<Info(INFO_MSG), PromptTokensUpdate(prompt_tokens),
                    FinalTokenCounts(prompt_tokens, 0, prompt_tokens), Sentinel>>)
        /\ frame' = [frame EXCEPT ![w].prompt_tokens = prompt_tokens]
        /\ pc' = [pc EXCEPT ![w] = "done"]
        /\ UNCHANGED <<context_history, app_stop_event, ocr_text_buffer,
                       last_image_buffer, last_action_was_ocr_initiated, config,
                       tokenizer, args, lines_delivered, observed, cleared>>

\* 273-284: ... and posts its messages; no request is sent.
Stream_set_context_post(w) ==
    LET prompt_tokens ==
            count_tokens_for_api_messages(
                <<[role |-> "user",
                   content |-> PartsContent(args[w].current_user_message_parts)]>>)
    IN  /\ pc[w] = "ctx_post"
        /\ Put(w, <<Info(INFO_MSG), PromptTokensUpdate(prompt_tokens),
                    FinalTokenCounts(prompt_tokens, 0, prompt_tokens), Sentinel>>)
        /\ frame' = [frame EXCEPT ![w].prompt_tokens = prompt_tokens]
        /\ pc' = [pc EXCEPT ![w] = "done"]
        /\ UNCHANGED <<context_history, app_stop_event, ocr_text_buffer,
                       last_image_buffer, last_action_was_ocr_initiated, config,
                       tokenizer, args, lines_delivered, observed, cleared>>

\* 290-292
final_system_prompt ==
    IF Truthy(Strip(config.avatar_system_prompt_override))
    THEN Strip(config.avatar_system_prompt_override)
    ELSE Strip(config.system_prompt_global)

\* Mutant: only an empty history starts a new logical conversation.
is_new_logical_convo_empty_only(history) == history = <<>>

\* 295-297
is_new_logical_convo(history) ==
    \/ history = <<>>
    \/ /\ Len(history) > 0
       /\ history[Len(history)].content.kind = "str"
       /\ StartsWithBracket(history[Len(history)].content.text)

\* 305-316: the parts of one turn of the history
HistoryParts(turn) ==
    LET parts == IF turn.content.kind = "parts"
                 THEN turn.content.parts
                 ELSE <<TextPart(turn.content.text)>>
    IN  IF /\ turn.role = "user"
           /\ Truthy(turn.image)
           /\ ~\E i \in 1..Len(parts) : parts[i].type = "image_url"
        THEN Append(parts, ImagePart(turn.image))
        ELSE parts

RECURSIVE HistoryMessages(_)
HistoryMessages(history) ==
    IF history = <<>> THEN <<>>
    ELSE LET parts == HistoryParts(Head(history))
         IN  (IF parts # <<>>
              THEN <<[role |-> Head(history).role, content |-> PartsContent(parts)]>>
              ELSE <<>>)
             \o HistoryMessages(Tail(history))

\* 287-323: the message list of the request
api_payload_messages(history, current_user_message_parts) ==
    (IF Truthy(final_system_prompt) /\ is_new_logical_convo(history)
     THEN <<[role |-> "system", content |-> StrContent(final_system_prompt)]>>
     ELSE <<>>)
    \o HistoryMessages(history)
    \o (IF current_user_message_parts # <<>>
        THEN <<[role |-> "user", content |-> PartsContent(current_user_message_parts)]>>
        ELSE <<>>)

\* 286-341: build the message list from the history, post the prompt tokens
Stream_build_payload(w) ==
    /\ pc[w] = "start"
    /\ args[w].specific_action # "set_context_for_question"
    /\ IF args[w].current_user_message_parts = <<>>
       THEN /\ Put(w, <<Error(<<"Internal error: No user message content to send.">>),
                        Sentinel>>)
            /\ pc' = [pc EXCEPT ![w] = "done"]
            /\ UNCHANGED frame
       ELSE LET messages ==
                    api_payload_messages(context_history,
                                         args[w].current_user_message_parts)
                prompt_tokens == count_tokens_for_api_messages(messages)
            IN  /\ Put(w, <<PromptTokensUpdate(prompt_tokens)>>)
                /\ frame' = [frame EXCEPT ![w].prompt_tokens = prompt_tokens,
                                          ![w].api_payload_messages = messages]
                /\ pc' = [pc EXCEPT ![w] = "request"]
    /\ UNCHANGED <<context_history, app_stop_event, ocr_text_buffer,
                   last_image_buffer, last_action_was_ocr_initiated, config,
                   tokenizer, args, lines_delivered, observed, cleared>>

Raise(w, e) ==
    /\ frame' = [frame EXCEPT ![w].exc = e]
    /\ pc' = [pc EXCEPT ![w] = "except"]

\* 343-376: the request is sent; it is answered, times out or fails
Stream_request(w) ==
    /\ pc[w] = "request"
    /\ IF ~Truthy(config.llm_endpoint)
       THEN Raise(w, "ValueError")
       ELSE \E outcome \in {"ok", "Timeout", "RequestException"} :
                IF outcome = "ok"
                THEN pc' = [pc EXCEPT ![w] = "iter_lines"] /\ UNCHANGED frame
                ELSE Raise(w, outcome)
    /\ UNCHANGED <<context_history, gui_queue, app_stop_event, ocr_text_buffer,
                   last_image_buffer, last_action_was_ocr_initiated, config,
                   tokenizer, args, lines_delivered, observed, cleared>>

\* The thread reads the stop event and finds it set.
Observe(w) ==
    observed' = [observed EXCEPT ![w] = IF @ = 0 THEN Len(gui_queue[w]) + 1 ELSE @]

\* Mutant: the live count is the token count of the text received so far.
HandleLine_live_of_text(w, line) ==
    IF line.kind = "done"
    THEN /\ pc' = [pc EXCEPT ![w] = "after_loop"]
         /\ UNCHANGED <<frame, gui_queue>>
    ELSE IF line.kind = "json"
    THEN LET live == count_text_tokens(frame[w].full_response_text \o line.delta)
             seen == frame[w].server_reported_total_tokens
         IN  /\ frame' =
                  [frame EXCEPT
                     ![w].full_response_text =
                         IF Truthy(line.delta) THEN @ \o line.delta ELSE @,
                     ![w].completion_tokens_calculated =
                         IF Truthy(line.delta) THEN live ELSE @,
                     ![w].server_reported_total_tokens =
                         IF line.has_usage /\ line.total_tokens > seen
                         THEN line.total_tokens ELSE @,
                     ![w].usage_seen =
                         IF line.has_usage THEN @ \cup {line.total_tokens} ELSE @]
             /\ IF Truthy(line.delta)
                THEN Put(w, <<Chunk(line.delta, live)>>)
                ELSE UNCHANGED gui_queue
             /\ UNCHANGED pc
    ELSE IF line.kind = "badjson"
    THEN /\ frame' = [frame EXCEPT ![w].skipped_at =
                                      IF @ = 0 THEN Len(gui_queue[w]) + 1 ELSE @]
         /\ UNCHANGED <<pc, gui_queue>>
    ELSE UNCHANGED <<pc, frame, gui_queue>>

\* Mutant: a payload that is no JSON ends the stream with an error.
HandleLine_bad_payload_raises(w, line) ==
    IF line.kind = "done"
    THEN /\ pc' = [pc EXCEPT ![w] = "after_loop"]
         /\ UNCHANGED <<frame, gui_queue>>
    ELSE IF line.kind = "json"
    THEN LET chunk_tok_count == count_text_tokens(line.delta)
             live == frame[w].completion_tokens_calculated + chunk_tok_count
             seen == frame[w].server_reported_total_tokens
         IN  /\ frame' =
                  [frame EXCEPT
                     ![w].full_response_text =
                         IF Truthy(line.delta) THEN @ \o line.delta ELSE @,
                     ![w].completion_tokens_calculated =
                         IF Truthy(line.delta) THEN live ELSE @,
                     ![w].server_reported_total_tokens =
                         IF line.has_usage /\ line.total_tokens > seen
                         THEN line.total_tokens ELSE @,
                     ![w].usage_seen =
                         IF line.has_usage THEN @ \cup {line.total_tokens} ELSE @]
             /\ IF Truthy(line.delta)
                THEN Put(w, <<Chunk(line.delta, live)>>)
                ELSE UNCHANGED gui_queue
             /\ UNCHANGED pc
    ELSE IF line.kind = "badjson"
    THEN /\ frame' = [frame EXCEPT ![w].skipped_at =
                                      IF @ = 0 THEN Len(gui_queue[w]) + 1 ELSE @,
                                  ![w].exc = "Exception"]
         /\ pc' = [pc EXCEPT ![w] = "except"]
         /\ UNCHANGED gui_queue
    ELSE UNCHANGED <<pc, frame, gui_queue>>

\* Mutant: the usage figure of the latest payload replaces the one kept.
HandleLine_latest_usage(w, line) ==
    IF line.kind = "done"
    THEN /\ pc' = [pc EXCEPT ![w] = "after_loop"]
         /\ UNCHANGED <<frame, gui_queue>>
    ELSE IF line.kind = "json"
    THEN LET chunk_tok_count == count_text_tokens(line.delta)
             live == frame[w].completion_tokens_calculated + chunk_tok_count
         IN  /\ frame' =
                  [frame EXCEPT
                     ![w].full_response_text =
                         IF Truthy(line.delta) THEN @ \o line.delta ELSE @,
                     ![w].completion_tokens_calculated =
                         IF Truthy(line.delta) THEN live ELSE @,
                     ![w].server_reported_total_tokens =
                         IF line.has_usage THEN line.total_tokens ELSE @,
                     ![w].usage_seen =
                         IF line.has_usage THEN @ \cup {line.total_tokens} ELSE @]
             /\ IF Truthy(line.delta)
                THEN Put(w, <<Chunk(line.delta, live)>>)
                ELSE UNCHANGED gui_queue
             /\ UNCHANGED pc
    ELSE IF line.kind = "badjson"
    THEN /\ frame' = [frame EXCEPT ![w].skipped_at =
                                      IF @ = 0 THEN Len(gui_queue[w]) + 1 ELSE @]
         /\ UNCHANGED <<pc, gui_queue>>
    ELSE UNCHANGED <<pc, frame, gui_queue>>

\* 382-411: one line of the stream is handled
HandleLine(w, line) ==
    IF line.kind = "done"
    THEN /\ pc' = [pc EXCEPT ![w] = "after_loop"]
         /\ UNCHANGED <<frame, gui_queue>>
    ELSE IF line.kind = "json"
    THEN LET chunk_tok_count == count_text_tokens(line.delta)
             live == frame[w].completion_tokens_calculated + chunk_tok_count
             seen == frame[w].server_reported_total_tokens
         IN  /\ frame' =
                  [frame EXCEPT
                     ![w].full_response_text =
                         IF Truthy(line.delta) THEN @ \o line.delta ELSE @,
                     ![w].completion_tokens_calculated =
                         IF Truthy(line.delta) THEN live ELSE @,
                     ![w].server_reported_total_tokens =
                         IF line.has_usage /\ line.total_tokens > seen
                         THEN line.total_tokens ELSE @,
                     ![w].usage_seen =
                         IF line.has_usage THEN @ \cup {line.total_tokens} ELSE @]
             /\ IF Truthy(line.delta)
                THEN Put(w, <<Chunk(line.delta, live)>>)
                ELSE UNCHANGED gui_queue
             /\ UNCHANGED pc
    ELSE IF line.kind = "badjson"
    THEN /\ frame' = [frame EXCEPT ![w].skipped_at =
                                      IF @ = 0 THEN Len(gui_queue[w]) + 1 ELSE @]
         /\ UNCHANGED <<pc, gui_queue>>
    ELSE UNCHANGED <<pc, frame, gui_queue>>

\* 378-381: the next line arrives and the stop event is checked first
Stream_next_line(w) ==
    /\ pc[w] = "iter_lines"
    /\ lines_delivered < MaxLines
    /\ lines_delivered' = lines_delivered + 1
    /\ \E line \in LinesOf(provider) :
          IF app_stop_event
          THEN /\ Observe(w)
               /\ pc' = [pc EXCEPT ![w] = "after_loop"]
               /\ UNCHANGED <<frame, gui_queue>>
          ELSE HandleLine(w, line) /\ UNCHANGED observed
    /\ UNCHANGED <<context_history, app_stop_event, ocr_text_buffer,
                   last_image_buffer, last_action_was_ocr_initiated, config,
                   tokenizer, args, cleared>>

\* 378: the stream ends without the end marker
Stream_end_of_stream(w) ==
    /\ pc[w] = "iter_lines"
    /\ pc' = [pc EXCEPT ![w] = "after_loop"]
    /\ UNCHANGED <<context_history, gui_queue, app_stop_event, ocr_text_buffer,
                   last_image_buffer, last_action_was_ocr_initiated, config,
                   tokenizer, args, frame, lines_delivered, observed, cleared>>

\* 378-411: reading or decoding a line raises
Stream_line_raises(w) ==
    /\ pc[w] = "iter_lines"
    /\ \E e \in {"RequestException", "Exception"} : Raise(w, e)
    /\ UNCHANGED <<context_history, gui_queue, app_stop_event, ocr_text_buffer,
                   last_image_buffer, last_action_was_ocr_initiated, config,
                   tokenizer, args, lines_delivered, observed, cleared>>

\* Mutant: the stop event is not checked again after the loop.
Stream_after_loop_unchecked(w) ==
    /\ pc[w] = "after_loop"
    /\ pc' = [pc EXCEPT ![w] = "append_user"]
    /\ UNCHANGED <<context_history, gui_queue, app_stop_event, ocr_text_buffer,
                   last_image_buffer, last_action_was_ocr_initiated, config,
                   tokenizer, args, frame, lines_delivered, observed, cleared>>

\* 413-415: after the loop the stop event is checked again
Stream_after_loop(w) ==
    /\ pc[w] = "after_loop"
    /\ IF app_stop_event
       THEN /\ Observe(w)
            /\ Put(w, <<Info(<<"LLM stream was cancelled by application.">>),
                        Sentinel>>)
            /\ pc' = [pc EXCEPT ![w] = "finally"]
       ELSE /\ pc' = [pc EXCEPT ![w] = "append_user"]
            /\ UNCHANGED <<gui_queue, observed>>
    /\ UNCHANGED <<context_history, app_stop_event, ocr_text_buffer,
                   last_image_buffer, last_action_was_ocr_initiated, config,
                   tokenizer, args, frame, lines_delivered, cleared>>

\* 425
Stream_append_user(w) ==
    /\ pc[w] = "append_user"
    /\ Append2(UserTurn(w))
    /\ pc' = [pc EXCEPT ![w] = "append_assistant"]
    /\ UNCHANGED <<gui_queue, app_stop_event, ocr_text_buffer, last_image_buffer,
                   last_action_was_ocr_initiated, config, tokenizer, args,
                   frame, lines_delivered, observed, cleared>>

\* Mutant: an empty response is not recorded.
Stream_append_assistant_nonempty(w) ==
    /\ pc[w] = "append_assistant"
    /\ IF Truthy(frame[w].full_response_text)
       THEN Append2(Turn("assistant", StrContent(frame[w].full_response_text), None, w))
       ELSE UNCHANGED context_history
    /\ pc' = [pc EXCEPT ![w] = "final_counts"]
    /\ UNCHANGED <<gui_queue, app_stop_event, ocr_text_buffer, last_image_buffer,
                   last_action_was_ocr_initiated, config, tokenizer, args,
                   frame, lines_delivered, observed, cleared>>

\* 426
Stream_append_assistant(w) ==
    /\ pc[w] = "append_assistant"
    /\ Append2(Turn("assistant", StrContent(frame[w].full_response_text), None, w))
    /\ pc' = [pc EXCEPT ![w] = "final_counts"]
    /\ UNCHANGED <<gui_queue, app_stop_event, ocr_text_buffer, last_image_buffer,
                   last_action_was_ocr_initiated, config, tokenizer, args,
                   frame, lines_delivered, observed, cleared>>

\* Mutant: the full response is posted before the final counts.
Stream_final_counts_swapped(w) ==
    LET calculated_total_tokens ==
            frame[w].prompt_tokens + frame[w].completion_tokens_calculated
        final_tokens_to_report ==
            IF frame[w].server_reported_total_tokens >= calculated_total_tokens
            THEN frame[w].server_reported_total_tokens
            ELSE calculated_total_tokens
    IN  /\ pc[w] = "final_counts"
        /\ Put(w, <<FullResponse(frame[w].full_response_text),
                    FinalTokenCounts(frame[w].prompt_tokens,
                                     frame[w].completion_tokens_calculated,
                                     final_tokens_to_report)>>)
        /\ pc' = [pc EXCEPT ![w] = "finally"]
        /\ UNCHANGED <<context_history, app_stop_event, ocr_text_buffer,
                       last_image_buffer, last_action_was_ocr_initiated, config,
                       tokenizer, args, frame, lines_delivered, observed, cleared>>

\* 429-444
Stream_final_counts(w) ==
    LET calculated_total_tokens ==
            frame[w].prompt_tokens + frame[w].completion_tokens_calculated
        final_tokens_to_report ==
            IF frame[w].server_reported_total_tokens >= calculated_total_tokens
            THEN frame[w].server_reported_total_tokens
            ELSE calculated_total_tokens
    IN  /\ pc[w] = "final_counts"
        /\ Put(w, <<FinalTokenCounts(frame[w].prompt_tokens,
                                     frame[w].completion_tokens_calculated,
                                     final_tokens_to_report),
                    FullResponse(frame[w].full_response_text)>>)
        /\ pc' = [pc EXCEPT ![w] = "finally"]
        /\ UNCHANGED <<context_history, app_stop_event, ocr_text_buffer,
                       last_image_buffer, last_action_was_ocr_initiated, config,
                       tokenizer, args, frame, lines_delivered, observed, cleared>>

ErrorText(e) ==
    CASE e = "Timeout" -> <<"LLM request timed out (180s).">>
      [] e = "RequestException" -> <<"LLM Connection Error: ">>
      [] OTHER -> <<"Unexpected LLM Error: ">>

\* Mutant: the handlers report the completion tokens counted so far.
Stream_except_live_tokens(w) ==
    /\ pc[w] = "except"
    /\ Put(w, <<Error(ErrorText(frame[w].exc)),
                FinalTokenCounts(frame[w].prompt_tokens,
                                 frame[w].completion_tokens_calculated,
                                 frame[w].prompt_tokens
                                     + frame[w].completion_tokens_calculated)>>)
    /\ pc' = [pc EXCEPT ![w] = "finally"]
    /\ UNCHANGED <<context_history, app_stop_event, ocr_text_buffer,
                   last_image_buffer, last_action_was_ocr_initiated, config,
                   tokenizer, args, frame, lines_delivered, observed, cleared>>

\* 446-458: the handlers of the three except clauses
Stream_except(w) ==
    /\ pc[w] = "except"
    /\ Put(w, <<Error(ErrorText(frame[w].exc)),
                FinalTokenCounts(frame[w].prompt_tokens, 0, frame[w].prompt_tokens)>>)
    /\ pc' = [pc EXCEPT ![w] = "finally"]
    /\ UNCHANGED <<context_history, app_stop_event, ocr_text_buffer,
                   last_image_buffer, last_action_was_ocr_initiated, config,
                   tokenizer, args, frame, lines_delivered, observed, cleared>>

\* Mutant: no finally clause, the Sentinel is put only where a path does it itself.
Stream_finally_missing(w) ==
    /\ pc[w] = "finally"
    /\ pc' = [pc EXCEPT ![w] = "done"]
    /\ UNCHANGED <<context_history, gui_queue, app_stop_event, ocr_text_buffer,
                   last_image_buffer, last_action_was_ocr_initiated, config,
                   tokenizer, args, frame, lines_delivered, observed, cleared>>

\* 459-460
Stream_finally(w) ==
    /\ pc[w] = "finally"
    /\ Put(w, <<Sentinel>>)
    /\ pc' = [pc EXCEPT ![w] = "done"]
    /\ UNCHANGED <<context_history, app_stop_event, ocr_text_buffer,
                   last_image_buffer, last_action_was_ocr_initiated, config,
                   tokenizer, args, frame, lines_delivered, observed, cleared>>

stream_llm_response(w) ==
    \/ Stream_set_context_user(w)
    \/ Stream_set_context_assistant(w)
    \/ Stream_set_context_post(w)
    \/ Stream_build_payload(w)
    \/ Stream_request(w)
    \/ Stream_next_line(w)
    \/ Stream_end_of_stream(w)
    \/ Stream_line_raises(w)
    \/ Stream_after_loop(w)
    \/ Stream_append_user(w)
    \/ Stream_append_assistant(w)
    \/ Stream_final_counts(w)
    \/ Stream_except(w)
    \/ Stream_finally(w)

(***************************************************************************)
(* The clock, the keyboard and the configuration.                          *)
(***************************************************************************)
Tick ==
    /\ now < MaxTime
    /\ now' = now + 1
    /\ UNCHANGED <<core_vars, key_down, press_id, hotkey_config, hk_vars, util_vars, provider>>

key_press ==
    /\ ~key_down
    /\ press_id < MaxPresses
    /\ key_down' = TRUE
    /\ press_id' = press_id + 1
    /\ UNCHANGED <<core_vars, now, hotkey_config, hk_vars, util_vars, provider>>

key_release ==
    /\ key_down
    /\ key_down' = FALSE
    /\ UNCHANGED <<core_vars, now, press_id, hotkey_config, hk_vars, util_vars, provider>>

\* engine.set_config_value("hotkey", h)
set_config_value_hotkey(h) ==
    /\ gui_pc = "idle"
    /\ h # hotkey_config
    /\ hotkey_config' = h
    /\ UNCHANGED <<core_vars, now, key_down, press_id, hk_vars, util_vars, provider>>

(***************************************************************************)
(* start_listener, update_hotkey_from_config and stop_listener, run by the *)
(* GUI thread.                                                             *)
(***************************************************************************)
NextListener ==
    CHOOSE t \in Listeners : lpc[t] = "unborn" /\ \A u \in Listeners : lpc[u] = "unborn" => t <= u

\* start_listener without the checks of the hotkey's validity.
start_listener_unvalidated ==
    /\ gui_pc = "idle"
    /\ IF listener_thread # NoThread /\ is_alive(listener_thread)
       THEN /\ returned' = "True"
            /\ UNCHANGED <<hotkey_str, is_valid_hotkey, listener_thread, lpc>>
       ELSE LET loaded == load_hotkey_from_config(hotkey_config)
            IN  /\ hotkey_str' = loaded.hotkey_str
                /\ is_valid_hotkey' = loaded.is_valid_hotkey
                /\ \E t \in Listeners : lpc[t] = "unborn"
                /\ listener_thread' = NextListener
                /\ lpc' = [lpc EXCEPT ![NextListener] = "start"]
                /\ returned' = "True"
    /\ UNCHANGED <<core_vars, env_vars, util_vars, last_pressed_time, gui_pc, cpc, triggers>>

start_listener ==
    /\ gui_pc = "idle"
    /\ IF ~is_valid_hotkey \/ ~Truthy(hotkey_str)
       THEN /\ returned' = "False"
            /\ UNCHANGED <<hotkey_str, is_valid_hotkey, listener_thread, lpc>>
       ELSE IF listener_thread # NoThread /\ is_alive(listener_thread)
       THEN /\ returned' = "True"
            /\ UNCHANGED <<hotkey_str, is_valid_hotkey, listener_thread, lpc>>
       ELSE LET loaded == load_hotkey_from_config(hotkey_config)
            IN  /\ hotkey_str' = loaded.hotkey_str
                /\ is_valid_hotkey' = loaded.is_valid_hotkey
                /\ IF ~loaded.is_valid_hotkey \/ ~Truthy(loaded.hotkey_str)
                   THEN /\ returned' = "False"
                        /\ UNCHANGED <<listener_thread, lpc>>
                   ELSE /\ \E t \in Listeners : lpc[t] = "unborn"
                        /\ listener_thread' = NextListener
                        /\ lpc' = [lpc EXCEPT ![NextListener] = "start"]
                        /\ returned' = "True"
    /\ UNCHANGED <<core_vars, env_vars, util_vars, last_pressed_time, gui_pc, cpc, triggers>>

update_hotkey_from_config ==
    /\ gui_pc = "idle"
    /\ LET loaded == load_hotkey_from_config(hotkey_config)
       IN  /\ hotkey_str' = loaded.hotkey_str
           /\ is_valid_hotkey' = loaded.is_valid_hotkey
    /\ UNCHANGED <<core_vars, env_vars, util_vars, last_pressed_time, listener_thread, lpc,
                   gui_pc, returned, cpc, triggers>>

\* 161-165: stop_listener up to its join
stop_listener ==
    IF listener_thread # NoThread /\ is_alive(listener_thread)
    THEN /\ gui_pc' = "joining"
         /\ UNCHANGED listener_thread
    ELSE /\ listener_thread' = NoThread
         /\ UNCHANGED gui_pc

\* 165-172: the join returns, the thread has ended or the timeout has passed
stop_listener_join_returns ==
    /\ gui_pc = "joining"
    /\ listener_thread' = NoThread
    /\ gui_pc' = "idle"
    /\ UNCHANGED <<core_vars, env_vars, util_vars, hotkey_str, is_valid_hotkey,
                   last_pressed_time, lpc, returned, cpc, triggers>>

\* engine.py 290-307: shutdown calls stop_listener and stop_speech; it leaves
\* the stop event and the requests alone
shutdown ==
    /\ stop_listener
    /\ UNCHANGED <<context_history, gui_queue, ocr_text_buffer,
                   last_image_buffer, last_action_was_ocr_initiated, config,
                   tokenizer, pc, args, frame, lines_delivered, observed, cleared>>
    /\ UNCHANGED <<hotkey_str, is_valid_hotkey, last_pressed_time,
                   lpc, returned, cpc, triggers>>

\* gui.py on_closing: APP_STOP_EVENT.set(); self.engine.shutdown()
on_closing ==
    /\ gui_pc = "idle"
    /\ ~app_stop_event
    /\ app_stop_event' = TRUE
    /\ shutdown
    /\ UNCHANGED <<env_vars, util_vars>>

(***************************************************************************)
(* _listener_worker, run by polling thread t.                              *)
(***************************************************************************)
\* Exceptions keyboard.is_pressed raises: an ImportError, one whose message
\* mentions "hook", one whose message mentions "permissions", any other.
PollErrors == {"ImportError", "hook", "permissions", "other"}
\* 115: the errors that end the thread
IsCritical(e) == e \in {"ImportError", "hook", "permissions"}

NextCapture ==
    CHOOSE c \in Captures : cpc[c].pc = "unborn" /\ \A d \in Captures : cpc[d].pc = "unborn" => c <= d

\* 85-89
Listener_start(t) ==
    /\ lpc[t] = "start"
    /\ lpc' = [lpc EXCEPT ![t] =
                  IF ~is_valid_hotkey \/ ~Truthy(hotkey_str) THEN "done" ELSE "loop"]
    /\ UNCHANGED <<core_vars, env_vars, util_vars, hotkey_str, is_valid_hotkey,
                   last_pressed_time, listener_thread, gui_pc, returned, cpc, triggers>>

\* The loop's check when it does not look at the stop event.
Listener_check_stop_unobserved(t) ==
    /\ lpc[t] = "loop"
    /\ lpc' = [lpc EXCEPT ![t] = "poll"]
    /\ UNCHANGED <<core_vars, env_vars, util_vars, hotkey_str, is_valid_hotkey,
                   last_pressed_time, listener_thread, gui_pc, returned, cpc, triggers>>

\* 90: while not self.app_stop_event.is_set(); 121 when it is set
Listener_check_stop(t) ==
    /\ lpc[t] = "loop"
    /\ lpc' = [lpc EXCEPT ![t] = IF app_stop_event THEN "done" ELSE "poll"]
    /\ UNCHANGED <<core_vars, env_vars, util_vars, hotkey_str, is_valid_hotkey,
                   last_pressed_time, listener_thread, gui_pc, returned, cpc, triggers>>

\* 104-105 and engine.py 113-134: the callback, on a thread of its own,
\* starts the thread that runs perform_screenshot_and_ocr
hotkey_callback(t) ==
    /\ \E c \in Captures : cpc[c].pc = "unborn"
    /\ cpc' = [cpc EXCEPT ![NextCapture].pc = "start"]
    /\ triggers' = Append(triggers, [at |-> now, press |-> press_id, by |-> t])

\* The poll with a debounce that lets a press through after exactly 1.2 s.
Listener_poll_inclusive(t) ==
    /\ lpc[t] = "poll"
    /\ Truthy(hotkey_str)
    /\ IF key_down /\ now - last_pressed_time >= debounce_time
       THEN /\ last_pressed_time' = now
            /\ hotkey_callback(t)
       ELSE UNCHANGED <<last_pressed_time, cpc, triggers>>
    /\ lpc' = [lpc EXCEPT ![t] = "sleep"]
    /\ UNCHANGED <<core_vars, env_vars, util_vars, hotkey_str, is_valid_hotkey,
                   listener_thread, gui_pc, returned>>

\* 92-111: keyboard.is_pressed returns, the debounce, the callback
Listener_poll(t) ==
    /\ lpc[t] = "poll"
    /\ Truthy(hotkey_str)
    /\ IF key_down /\ now - last_pressed_time > debounce_time
       THEN /\ last_pressed_time' = now
            /\ hotkey_callback(t)
       ELSE UNCHANGED <<last_pressed_time, cpc, triggers>>
    /\ lpc' = [lpc EXCEPT ![t] = "sleep"]
    /\ UNCHANGED <<core_vars, env_vars, util_vars, hotkey_str, is_valid_hotkey,
                   listener_thread, gui_pc, returned>>

\* The sleep of a loop that clears the stop event before its next check.
Listener_sleep_clears(t) ==
    /\ lpc[t] = "sleep"
    /\ lpc' = [lpc EXCEPT ![t] = "loop"]
    /\ app_stop_event' = FALSE
    /\ UNCHANGED <<context_history, gui_queue, ocr_text_buffer,
                   last_image_buffer, last_action_was_ocr_initiated, config,
                   tokenizer, pc, args, frame, lines_delivered, observed, cleared>>
    /\ UNCHANGED <<env_vars, util_vars, hotkey_str, is_valid_hotkey,
                   last_pressed_time, listener_thread, gui_pc, returned, cpc, triggers>>

\* 111: time.sleep(0.05)
Listener_sleep(t) ==
    /\ lpc[t] = "sleep"
    /\ lpc' = [lpc EXCEPT ![t] = "loop"]
    /\ UNCHANGED <<core_vars, env_vars, util_vars, hotkey_str, is_valid_hotkey,
                   last_pressed_time, listener_thread, gui_pc, returned, cpc, triggers>>

\* The handler of the loop when no error ends the thread.
Listener_poll_raises_retry(t, e) ==
    /\ lpc[t] = "poll"
    /\ ~Truthy(hotkey_str) => e = "other"
    /\ lpc' = [lpc EXCEPT ![t] = "error_wait"]
    /\ UNCHANGED <<core_vars, env_vars, util_vars, hotkey_str, is_valid_hotkey,
                   last_pressed_time, listener_thread, gui_pc, returned, cpc, triggers>>

\* 112-118: keyboard.is_pressed raises (it does for a hotkey that is None);
\* a critical error breaks the loop, 121 follows
Listener_poll_raises(t, e) ==
    /\ lpc[t] = "poll"
    /\ ~Truthy(hotkey_str) => e = "other"
    /\ lpc' = [lpc EXCEPT ![t] =
                  IF IsCritical(e) THEN "done_critical" ELSE "error_wait"]
    /\ UNCHANGED <<core_vars, env_vars, util_vars, hotkey_str, is_valid_hotkey,
                   last_pressed_time, listener_thread, gui_pc, returned, cpc, triggers>>

\* 119: time.sleep(1)
Listener_error_wait(t) ==
    /\ lpc[t] = "error_wait"
    /\ lpc' = [lpc EXCEPT ![t] = "loop"]
    /\ UNCHANGED <<core_vars, env_vars, util_vars, hotkey_str, is_valid_hotkey,
                   last_pressed_time, listener_thread, gui_pc, returned, cpc, triggers>>

listener_worker(t) ==
    \/ Listener_start(t)
    \/ Listener_check_stop(t)
    \/ Listener_poll(t)
    \/ Listener_sleep(t)
    \/ \E e \in PollErrors : Listener_poll_raises(t, e)
    \/ Listener_error_wait(t)

(***************************************************************************)
(* perform_screenshot_and_ocr (core/engine.py), run by capture thread c.   *)
(***************************************************************************)
\* What ocr_utils.capture_active_window_pil returns: (image, error)
CaptureResults == {<<Img, None>>, <<None, <<"No active window found to capture.">> >>}
\* What ocr_utils.extract_text_from_image returns: (text, error)
OcrResults ==
    {<<<<"o", "c", "r", "!">>, None>>, << <<>>, None>>,
     <<None, <<"Tesseract OCR not found. Please install it and add to system PATH.">> >>}

\* The capture when its outcome is not looked at before the text is extracted.
Capture_screenshot_unchecked(c) ==
    /\ cpc[c].pc = "start"
    /\ \E r \in CaptureResults :
          cpc' = [cpc EXCEPT ![c].pc = "ocr", ![c].image_pil = r[1]]
    /\ UNCHANGED <<core_vars, env_vars, util_vars, hotkey_str, is_valid_hotkey,
                   last_pressed_time, listener_thread, lpc, gui_pc, returned, triggers>>

\* 239-245
Capture_screenshot(c) ==
    /\ cpc[c].pc = "start"
    /\ \E r \in CaptureResults :
          LET image_pil == r[1]
              err_msg_screenshot == r[2]
          IN  IF Truthy(err_msg_screenshot) \/ ~Truthy(image_pil)
              THEN /\ Put(c, <<Error(IF Truthy(err_msg_screenshot)
                                     THEN err_msg_screenshot
                                     ELSE <<"Error: Screenshot capture failed (no image returned).">>),
                               HideCaptureActions>>)
                   /\ cpc' = [cpc EXCEPT ![c].pc = "done"]
              ELSE /\ cpc' = [cpc EXCEPT ![c].pc = "ocr", ![c].image_pil = image_pil]
                   /\ UNCHANGED gui_queue
    /\ UNCHANGED <<context_history, app_stop_event, ocr_text_buffer,
                   last_image_buffer, last_action_was_ocr_initiated, config,
                   tokenizer, pc, args, frame, lines_delivered, observed, cleared>>
    /\ UNCHANGED <<env_vars, util_vars, hotkey_str, is_valid_hotkey, last_pressed_time,
                   listener_thread, lpc, gui_pc, returned, triggers>>

\* The extraction when its failure ends the capture whatever the configuration.
Capture_ocr_strict(c) ==
    /\ cpc[c].pc = "ocr"
    /\ \E r \in OcrResults :
          LET err_msg_ocr == r[2]
          IN  /\ IF Truthy(err_msg_ocr)
                 THEN Put(c, <<Error(err_msg_ocr), HideCaptureActions>>)
                 ELSE Put(c, <<CapturedContent(IF r[1] # None THEN r[1] ELSE <<>>,
                                               cpc[c].image_pil)>>)
              /\ cpc' = [cpc EXCEPT ![c].pc = "done", ![c].ocr_attempted = TRUE,
                                    ![c].err_msg_ocr = err_msg_ocr]
    /\ UNCHANGED <<context_history, app_stop_event, ocr_text_buffer,
                   last_image_buffer, last_action_was_ocr_initiated, config,
                   tokenizer, pc, args, frame, lines_delivered, observed, cleared>>
    /\ UNCHANGED <<env_vars, util_vars, hotkey_str, is_valid_hotkey, last_pressed_time,
                   listener_thread, lpc, gui_pc, returned, triggers>>

\* 247-264
Capture_ocr(c) ==
    /\ cpc[c].pc = "ocr"
    /\ \E r \in OcrResults :
          LET err_msg_ocr == r[2]
              vision_is_enabled == config.enable_vision_if_available
              ocr_text == IF Truthy(err_msg_ocr) /\ vision_is_enabled THEN <<>> ELSE r[1]
          IN  /\ IF Truthy(err_msg_ocr) /\ ~vision_is_enabled
                 THEN Put(c, <<Error(err_msg_ocr), HideCaptureActions>>)
                 ELSE Put(c, <<CapturedContent(IF ocr_text # None THEN ocr_text ELSE <<>>,
                                               cpc[c].image_pil)>>)
              /\ cpc' = [cpc EXCEPT ![c].pc = "done", ![c].ocr_attempted = TRUE,
                                    ![c].err_msg_ocr = err_msg_ocr]
    /\ UNCHANGED <<context_history, app_stop_event, ocr_text_buffer,
                   last_image_buffer, last_action_was_ocr_initiated, config,
                   tokenizer, pc, args, frame, lines_delivered, observed, cleared>>
    /\ UNCHANGED <<env_vars, util_vars, hotkey_str, is_valid_hotkey, last_pressed_time,
                   listener_thread, lpc, gui_pc, returned, triggers>>

perform_screenshot_and_ocr(c) ==
    \/ Capture_screenshot(c)
    \/ Capture_ocr(c)

(***************************************************************************)
(* A call of count_text_tokens.                                            *)
(***************************************************************************)
\* The texts passed: None, and the strings of blanks and letters.
TokenTexts ==
    {None} \cup UNION {[1..n -> {" ", "a"}] : n \in 0..MaxTextLen}

\* 110-123: with a tokenizer, tokenizer.encode returns or raises
call_count_text_tokens ==
    /\ ~tok.called
    /\ \E encode_raises \in BOOLEAN :
          tok' = [tok EXCEPT
                    !.called = TRUE,
                    !.result =
                        IF tokenizer # NoTokenizer /\ tok.text_to_tokenize # None
                           /\ encode_raises
                        THEN char_count_fallback(tok.text_to_tokenize)
                        ELSE count_text_tokens(tok.text_to_tokenize)]
    /\ UNCHANGED <<core_vars, env_vars, hk_vars, conv>>

(***************************************************************************)
(* A call of convert_image_to_base64_str.                                  *)
(***************************************************************************)
\* Sizes in bytes a save can leave in the buffer: below, at and above the
\* two budgets.
ByteSizes == {4 * 1024, 5 * 1024, 5 * 1024 + 1, 500 * 1024, 500 * 1024 + 1, 900 * 1024}

\* The values passed for max_size_kb: the default, and that of the module's
\* own test.
MaxSizesKb == {DefaultMaxSizeKb, 5}

\* The data URL returned: its MIME type and what the buffer held.
DataUrl(mime_type, buffer, buffer_quality) ==
    [mime_type |-> mime_type, buffer |-> buffer, buffer_quality |-> buffer_quality]
\* "data:text/plain;base64,ZXJyb3I="
ErrorDataUrl == DataUrl("text/plain", "error", 0)

\* 172-196: the first save, as JPEG, else as PNG
Convert_first_save ==
    /\ conv.pc = "start"
    /\ IF conv.pil_image = NotAnImage
       THEN conv' = [conv EXCEPT !.pc = "done", !.data_url = ErrorDataUrl]
       ELSE \/ \E size \in ByteSizes :
                 conv' = [conv EXCEPT !.pc = "loop", !.is_jpeg = TRUE,
                                      !.image_format_used = "JPEG",
                                      !.buffer = "jpeg",
                                      !.buffer_quality = conv.quality,
                                      !.encodes = <<conv.quality>>,
                                      !.img_byte_size = size,
                                      !.current_quality = conv.quality]
            \/ \E size \in ByteSizes :
                 conv' = [conv EXCEPT !.pc = "loop", !.is_jpeg = FALSE,
                                      !.image_format_used = "PNG",
                                      !.buffer = "png",
                                      !.encodes = <<conv.quality>>,
                                      !.img_byte_size = size,
                                      !.current_quality = conv.quality]
            \/ conv' = [conv EXCEPT !.pc = "done", !.encodes = <<conv.quality>>,
                                    !.data_url = ErrorDataUrl]
    /\ UNCHANGED <<core_vars, env_vars, hk_vars, tok>>

\* The loop when it goes on while the quality is above 0.
Convert_loop_above_zero ==
    /\ conv.pc = "loop"
    /\ IF /\ conv.is_jpeg
          /\ conv.img_byte_size > conv.max_size_kb * 1024
          /\ conv.current_quality > 0
       THEN \/ \E size \in ByteSizes :
                 conv' = [conv EXCEPT !.current_quality = @ - 10,
                                      !.buffer_quality = conv.current_quality - 10,
                                      !.encodes = Append(@, conv.current_quality - 10),
                                      !.img_byte_size = size]
            \/ conv' = [conv EXCEPT !.pc = "break",
                                    !.current_quality = @ - 10,
                                    !.buffer = "partial",
                                    !.buffer_quality = conv.current_quality - 10,
                                    !.encodes = Append(@, conv.current_quality - 10)]
       ELSE conv' = [conv EXCEPT
                        !.pc = "done",
                        !.data_url = DataUrl(IF conv.image_format_used = "JPEG"
                                             THEN "image/jpeg" ELSE "image/png",
                                             conv.buffer, conv.buffer_quality)]
    /\ UNCHANGED <<core_vars, env_vars, hk_vars, tok>>

\* 198-213: one test of the loop's condition; the image is saved again at a
\* lower quality, and the save returns or raises, or the loop is left and
\* the data URL returned
Convert_loop ==
    /\ conv.pc = "loop"
    /\ IF /\ conv.is_jpeg
          /\ conv.img_byte_size > conv.max_size_kb * 1024
          /\ conv.current_quality > 10
       THEN \/ \E size \in ByteSizes :
                 conv' = [conv EXCEPT !.current_quality = @ - 10,
                                      !.buffer_quality = conv.current_quality - 10,
                                      !.encodes = Append(@, conv.current_quality - 10),
                                      !.img_byte_size = size]
            \/ conv' = [conv EXCEPT !.pc = "break",
                                    !.current_quality = @ - 10,
                                    !.buffer = "partial",
                                    !.buffer_quality = conv.current_quality - 10,
                                    !.encodes = Append(@, conv.current_quality - 10)]
       ELSE conv' = [conv EXCEPT
                        !.pc = "done",
                        !.data_url = DataUrl(IF conv.image_format_used = "JPEG"
                                             THEN "image/jpeg" ELSE "image/png",
                                             conv.buffer, conv.buffer_quality)]
    /\ UNCHANGED <<core_vars, env_vars, hk_vars, tok>>

\* 211-213, 217-221: after the break the data URL is made of the buffer as it is
Convert_after_break ==
    /\ conv.pc = "break"
    /\ conv' = [conv EXCEPT !.pc = "done",
                            !.data_url = DataUrl("image/jpeg", conv.buffer,
                                                 conv.buffer_quality)]
    /\ UNCHANGED <<core_vars, env_vars, hk_vars, tok>>

convert_image_to_base64_str ==
    \/ Convert_first_save
    \/ Convert_loop
    \/ Convert_after_break

(***************************************************************************)
(* The specifications.                                                     *)
(***************************************************************************)
\* The engine's operations, called by the GUI thread while it is not in a join.
EngineOps ==
    \/ \E q \in Questions : process_direct_question(q)
    \/ \E a \in OcrActions : process_ocr_action(a[1], a[2], a[3], a[4])
    \/ clear_all_context_and_buffers

\* The engine and its requests; the polling thread is not scheduled.
Next ==
    \/ (gui_pc = "idle" /\ EngineOps /\ UNCHANGED <<env_vars, hk_vars, util_vars>>)
    \/ on_closing
    \/ stop_listener_join_returns
    \/ ((\E w \in Workers : stream_llm_response(w)) /\ UNCHANGED <<env_vars, hk_vars, util_vars>>)

\* The polling thread, the keyboard and the clock.
DebounceNext ==
    \/ Tick
    \/ key_press
    \/ key_release
    \/ \E t \in Listeners : listener_worker(t)

\* The engine and its requests with the polling thread, the key and the
\* capture threads.
SoloHotkeyNext ==
    \/ Next
    \/ key_press
    \/ \E t \in Listeners : listener_worker(t)
    \/ \E c \in Captures : perform_screenshot_and_ocr(c)

\* The hotkey manager and its polling threads; the capture threads the
\* callback starts are not scheduled.
HotkeyNext ==
    \/ key_press
    \/ key_release
    \/ \E h \in HotkeyConfigs : set_config_value_hotkey(h)
    \/ start_listener
    \/ update_hotkey_from_config
    \/ on_closing
    \/ stop_listener_join_returns
    \/ \E t \in Listeners : listener_worker(t)

\* The engine with up to MaxWorkers concurrent requests.
Spec == Init /\ [][Next]_vars

\* The engine with SoloWorkers requests.
SpecSolo == InitSolo /\ [][Next]_vars

\* A started thread is scheduled again and again until it returns; the
\* request and every line read return or raise (the request timeout).
SpecSoloFair ==
    /\ SpecSolo
    /\ \A w \in Workers :
          WF_vars(stream_llm_response(w) /\ UNCHANGED <<env_vars, hk_vars, util_vars>>)

\* The engine with SoloWorkers requests and an endpoint, the polling thread
\* and the hotkey.
SoloHotkeyInit == InitWith(SoloWorkers) /\ Truthy(config.llm_endpoint)

SpecSoloHotkey == SoloHotkeyInit /\ [][SoloHotkeyNext]_vars

\* The engine is constructed with any configured hotkey; no request is made.
HotkeyInit ==
    /\ context_history = <<>>
    /\ \E h \in HotkeyConfigs :
          /\ HotkeyInitWith(h)
          /\ gui_queue = [p \in Producers |->
                            IF p = ENGINE /\ ~load_hotkey_from_config(h).is_valid_hotkey
                            THEN <<ListenerFailedError>> ELSE <<>>]
    /\ app_stop_event = FALSE
    /\ ocr_text_buffer = None
    /\ last_image_buffer = None
    /\ last_action_was_ocr_initiated = FALSE
    /\ config \in {c \in Configs : Truthy(c.llm_endpoint) /\ c.enable_vision_if_available}
    /\ tokenizer \in Tokenizers
    /\ pc = [w \in Workers |-> "unused"]
    /\ args = [w \in Workers |-> NoArgs]
    /\ frame = [w \in Workers |-> NoFrame]
    /\ lines_delivered = 0
    /\ observed = [w \in Workers |-> 0]
    /\ cleared = FALSE
    /\ tok = NoTok
    /\ conv = NoConv
    /\ provider = "steady"

SpecHotkey == HotkeyInit /\ [][HotkeyNext]_vars

\* The engine is constructed with the default hotkey; the key is pressed and
\* released as time passes.
DebounceInit == InitWith(0)

SpecDebounce == DebounceInit /\ [][DebounceNext]_vars

\* Every started thread is scheduled again and again, and a join returns.
SpecHotkeyFair ==
    /\ SpecHotkey
    /\ \A t \in Listeners : WF_vars(listener_worker(t))
    /\ WF_vars(stop_listener_join_returns)

\* count_text_tokens is called once, with any text, with or without a
\* tokenizer.
TokensInit ==
    /\ CoreInitWith(0, {NoTokenizer, CharTokenizer})
    /\ HotkeyInitWith(DefaultHotkey)
    /\ tok \in [text_to_tokenize : TokenTexts, called : {FALSE}, result : {0}]
    /\ conv = NoConv
    /\ provider = "steady"

SpecTokens == TokensInit /\ [][call_count_text_tokens]_vars

\* convert_image_to_base64_str is called once, with the default quality.
ImageInit ==
    /\ CoreInitWith(0, Tokenizers)
    /\ HotkeyInitWith(DefaultHotkey)
    /\ tok = NoTok
    /\ \E image \in {Img, NotAnImage} : \E kb \in MaxSizesKb :
          conv = [NoConv EXCEPT !.pc = "start", !.pil_image = image,
                                !.quality = DefaultQuality, !.max_size_kb = kb]
    /\ provider = "steady"

SpecImage == ImageInit /\ [][convert_image_to_base64_str]_vars

\* The call runs on: every save returns or raises.
SpecImageFair == SpecImage /\ WF_vars(convert_image_to_base64_str)

\* The engine with SoloWorkers requests to a server that answers and ends
\* every stream with the end marker: no stream runs out or fails before it.
MarkerNext ==
    \/ (gui_pc = "idle" /\ EngineOps /\ UNCHANGED <<env_vars, hk_vars, util_vars>>)
    \/ on_closing
    \/ stop_listener_join_returns
    \/ ((\E w \in Workers :
            \/ Stream_set_context_user(w)
            \/ Stream_set_context_assistant(w)
            \/ Stream_set_context_post(w)
            \/ Stream_build_payload(w)
            \/ Stream_request(w)
            \/ Stream_next_line(w)
            \/ Stream_after_loop(w)
            \/ Stream_append_user(w)
            \/ Stream_append_assistant(w)
            \/ Stream_final_counts(w)
            \/ Stream_except(w)
            \/ Stream_finally(w))
        /\ UNCHANGED <<env_vars, hk_vars, util_vars>>)

SpecMarker == InitWith(SoloWorkers) /\ [][MarkerNext]_vars

\* The engine when no request is started once the history has been cleared:
\* every thread that runs after the clear was started before it.
ClearNext ==
    \/ /\ gui_pc = "idle"
       /\ \/ ~cleared /\ \E q \in Questions : process_direct_question(q)
          \/ ~cleared /\ \E a \in OcrActions : process_ocr_action(a[1], a[2], a[3], a[4])
          \/ clear_all_context_and_buffers
       /\ UNCHANGED <<env_vars, hk_vars, util_vars>>
    \/ on_closing
    \/ stop_listener_join_returns
    \/ ((\E w \in Workers : stream_llm_response(w)) /\ UNCHANGED <<env_vars, hk_vars, util_vars>>)

SpecClear == InitSolo /\ [][ClearNext]_vars

\* Values of the two system prompts in the configuration: empty, blank, set.
PromptConfigs ==
    [enable_vision_if_available : {TRUE},
     llm_endpoint : {<<"http://127.0.0.1:1234/v1/chat/completions">>},
     system_prompt_global : {<<>>, <<" ">>, <<"You are LM Buddy.">>},
     avatar_system_prompt_override : {<<>>, <<" ">>, <<" ", "Be brief.", " ">>}]

\* The pairs of turns earlier requests leave in the history: of a
\* context-setting action, and of a streamed response that starts with a
\* letter or with a bracket; the last pair may lack its assistant turn
\* while the request that appends it is running.
PromptHistories ==
    LET ContextSetPair ==
            <<Turn("user", PartsContent(<<TextPart(<<"o", "c", "r", "!">>)>>), None, 0),
              Turn("assistant", StrContent(INFO_MSG), None, 0)>>
        AnsweredPair(response) ==
            <<Turn("user", PartsContent(<<TextPart(<<" ", "w", "h", "y", "?">>)>>), None, 0),
              Turn("assistant", StrContent(response), None, 0)>>
        pairs == {ContextSetPair, AnsweredPair(<<"P", "a", "r", "i", "s">>),
                  AnsweredPair(<<"[", "1", "]">>)}
    IN  {<<>>} \cup pairs \cup {a \o b : a \in pairs, b \in pairs}
             \cup {a \o <<Head(b)>> : a \in pairs, b \in pairs}

\* The arguments of a question, of an action on a captured text, and of a
\* call without message parts.
PromptArgs ==
    {[NoArgs EXCEPT !.current_user_message_parts =
                        <<TextPart(<<" ", "w", "h", "y", "?">>)>>,
                    !.is_direct_question = TRUE],
     [NoArgs EXCEPT !.current_user_message_parts =
                        <<TextPart(<<"o", "c", "r", "!">>)>>,
                    !.specific_action = "summarize"],
     NoArgs}

\* Thread 1 is started with any history and any system prompts.
PromptInit ==
    /\ context_history \in PromptHistories
    /\ gui_queue = [p \in Producers |-> <<>>]
    /\ app_stop_event = FALSE
    /\ ocr_text_buffer = None
    /\ last_image_buffer = None
    /\ last_action_was_ocr_initiated = FALSE
    /\ config \in PromptConfigs
    /\ tokenizer \in Tokenizers
    /\ pc = [w \in Workers |-> IF w = 1 THEN "start" ELSE "unused"]
    /\ \E a \in PromptArgs : args = [w \in Workers |-> IF w = 1 THEN a ELSE NoArgs]
    /\ frame = [w \in Workers |-> NoFrame]
    /\ lines_delivered = 0
    /\ observed = [w \in Workers |-> 0]
    /\ cleared = FALSE
    /\ HotkeyInitWith(DefaultHotkey)
    /\ tok = NoTok
    /\ conv = NoConv
    /\ provider = "steady"

PromptNext ==
    \E w \in Workers :
        Stream_build_payload(w) /\ UNCHANGED <<env_vars, hk_vars, util_vars>>

SpecPrompt == PromptInit /\ [][PromptNext]_vars

(***************************************************************************)
(* Vocabulary of the properties.                                           *)
(***************************************************************************)
\* The messages thread w has posted.
Posted(w) == gui_queue[w]
CountType(q, t) == Cardinality({i \in 1..Len(q) : q[i].type = t})
Started(w) == pc[w] \notin {"unborn", "unused"}
Returned(w) == pc[w] = "done"
\* Thread w saw the stop event set.
Cancelled(w) == observed[w] > 0
\* Thread w left the try block by an exception.
Failed(w) == frame[w].exc # "none"
\* Thread w ran a request to its normal end.
Completed(w) ==
    /\ Returned(w)
    /\ ~Cancelled(w)
    /\ ~Failed(w)
    /\ args[w].current_user_message_parts # <<>>
\* Thread w streamed a response to its normal end.
Streamed(w) == Completed(w) /\ args[w].specific_action # "set_context_for_question"
TurnsOf(w) == {i \in 1..Len(context_history) : context_history[i].req = w}
CancelInfo == Info(<<"LLM stream was cancelled by application.">>)

(***************************************************************************)
(* C1: every invocation of stream_llm_response puts exactly one Sentinel   *)
(* on the channel, whatever path it takes.                                 *)
(***************************************************************************)
C1_ExactlyOneSentinel ==
    \A w \in Workers : Returned(w) => CountType(Posted(w), "Sentinel") = 1

(***************************************************************************)
(* C2: a stream that completes posts PromptTokensUpdate, then its Chunks,  *)
(* then FinalTokenCounts, then FullResponse, then the Sentinel; on every   *)
(* path nothing but a Sentinel follows a Sentinel, and the last message of *)
(* a returned invocation is a Sentinel.                                    *)
(***************************************************************************)
C2_MessageOrder ==
    \A w \in Workers :
        LET q == Posted(w)
            n == Len(q)
        IN  /\ \A i \in 1..n : \A j \in (i + 1)..n :
                  q[i].type = "Sentinel" => q[j].type = "Sentinel"
            /\ Returned(w) => n > 0 /\ q[n] = Sentinel
            /\ Streamed(w) =>
                  /\ n >= 4
                  /\ q[1].type = "PromptTokensUpdate"
                  /\ \A i \in 2..(n - 3) : q[i].type = "Chunk"
                  /\ q[n - 2].type = "FinalTokenCounts"
                  /\ q[n - 1].type = "FullResponse"
                  /\ q[n] = Sentinel

C2_Witness ==
    \E w \in Workers : Streamed(w) /\ CountType(Posted(w), "Chunk") > 0

(***************************************************************************)
(* C3: once a thread has seen the stop event set, it posts no Chunk any    *)
(* more and no turn of the history is its own.                             *)
(***************************************************************************)
C3_NoChunkNoTurnAfterStop ==
    \A w \in Workers :
        Cancelled(w) =>
            /\ \A i \in observed[w]..Len(Posted(w)) : Posted(w)[i].type # "Chunk"
            /\ TurnsOf(w) = {}
            /\ pc[w] \in {"after_loop", "finally", "done"}

\* A thread that saw the stop event after it had posted a Chunk has returned.
C3_Witness ==
    \E w \in Workers :
        /\ Returned(w)
        /\ Cancelled(w)
        /\ \E i \in 1..(observed[w] - 1) : Posted(w)[i].type = "Chunk"

(***************************************************************************)
(* C4: what a cancelled invocation posts after it has seen the stop event  *)
(* is one Info (stream cancelled) and then one Sentinel, nothing else.     *)
(***************************************************************************)
C4_CancelPostsInfoSentinel ==
    \A w \in Workers :
        Returned(w) /\ Cancelled(w) =>
            SubSeq(Posted(w), observed[w], Len(Posted(w))) = <<CancelInfo, Sentinel>>

(***************************************************************************)
(* C5: whenever no thread is between its two appends, the history is a     *)
(* concatenation of (user, assistant) pairs, each pair of one request.     *)
(***************************************************************************)
WellPaired(history) ==
    /\ Len(history) % 2 = 0
    /\ \A k \in 1..(Len(history) \div 2) :
          /\ history[2 * k - 1].role = "user"
          /\ history[2 * k].role = "assistant"
          /\ history[2 * k - 1].req = history[2 * k].req

C5_PairsAtomic ==
    (\A w \in Workers : pc[w] \notin {"ctx_assistant", "append_assistant"})
        => WellPaired(context_history)

(***************************************************************************)
(* C6: when every started request has returned and the history was never   *)
(* cleared, the history holds two turns for every completed request and    *)
(* none for a cancelled or failed one.                                     *)
(***************************************************************************)
C6_TwoTurnsPerCompleted ==
    (~cleared /\ \A w \in Workers : Started(w) => Returned(w))
        => /\ Len(context_history) = 2 * Cardinality({w \in Workers : Completed(w)})
           /\ \A w \in Workers :
                 Cardinality(TurnsOf(w)) = IF Completed(w) THEN 2 ELSE 0

\* Two requests completed, a third party never cleared the history.
C6_Witness ==
    /\ ~cleared
    /\ Cardinality({w \in Workers : Completed(w)}) = 2
    /\ Len(context_history) = 4

(***************************************************************************)
(* C7: an invocation that fails (no endpoint, timeout, connection or HTTP  *)
(* failure, any other exception, also after Chunks) posts one Error, one   *)
(* FinalTokenCounts with completion 0 and total = prompt, then the         *)
(* Sentinel, and adds nothing to the history.                              *)
(***************************************************************************)
C7_FailurePosts ==
    \A w \in Workers :
        Returned(w) /\ Failed(w) =>
            LET q == Posted(w)
                n == Len(q)
            IN  /\ n >= 4
                /\ q[1].type = "PromptTokensUpdate"
                /\ q[n - 2].type = "Error"
                /\ q[n - 1] = FinalTokenCounts(q[1].count, 0, q[1].count)
                /\ q[n] = Sentinel
                /\ CountType(q, "Error") = 1
                /\ CountType(q, "FinalTokenCounts") = 1
                /\ CountType(q, "Sentinel") = 1
                /\ TurnsOf(w) = {}

\* A request with prompt tokens failed after a Chunk that counted tokens.
C7_Witness ==
    \E w \in Workers :
        /\ Returned(w)
        /\ Failed(w)
        /\ Posted(w)[1].count > 0
        /\ \E i \in 1..Len(Posted(w)) :
              Posted(w)[i].type = "Chunk" /\ Posted(w)[i].completion_tokens_live > 0

(***************************************************************************)
(* C8: every started thread eventually returns, and has then posted a      *)
(* Sentinel, whether or not the stop event is ever set.                    *)
(***************************************************************************)
C8_EventuallySentinel ==
    \A w \in Workers :
        Started(w) ~> (Returned(w) /\ CountType(Posted(w), "Sentinel") > 0)

\* A thread has returned with its Sentinel while the stop event was never set.
C8_Witness ==
    \E w \in Workers :
        Returned(w) /\ ~app_stop_event /\ CountType(Posted(w), "Sentinel") > 0

(***************************************************************************)
(* C9: process_direct_question with a blank text (None, empty or only      *)
(* whitespace) posts one Error, starts no thread, posts no Sentinel and    *)
(* leaves the history alone; with any other text it starts one thread      *)
(* whose request is a single text part holding the text, without image,    *)
(* as a direct question.                                                   *)
(***************************************************************************)
BlankText(t) == t = None \/ \A i \in 1..Len(t) : t[i] = " "

C9_DirectQuestion ==
    [][\A q \in Questions :
          process_direct_question(q) =>
              IF BlankText(q)
              THEN /\ gui_queue' =
                        [gui_queue EXCEPT ![ENGINE] =
                            Append(@, Error(<<"Cannot process an empty question.">>))]
                   /\ pc' = pc
                   /\ context_history' = context_history
              ELSE /\ \E w \in Workers :
                        /\ pc[w] = "unborn"
                        /\ pc' = [pc EXCEPT ![w] = "start"]
                        /\ args'[w] =
                              [current_user_message_parts |-> <<[type |-> "text", text |-> q]>>,
                               is_direct_question |-> TRUE,
                               specific_action |-> NoAction,
                               pil_image_obj |-> None,
                               target_language |-> None]
                   /\ gui_queue' = gui_queue
                   /\ context_history' = context_history]_vars

\* A blank question was rejected and another question started a thread.
C9_Witness ==
    /\ \E i \in 1..Len(gui_queue[ENGINE]) : gui_queue[ENGINE][i].type = "Error"
    /\ \E w \in Workers : Started(w) /\ args[w].is_direct_question

(***************************************************************************)
(* C10: the engine starts no thread for the action "translate" when the    *)
(* target language is empty or missing.                                    *)
(***************************************************************************)
C10_TranslateNeedsTarget ==
    \A w \in Workers :
        Started(w) /\ args[w].specific_action = "translate"
            => Truthy(args[w].target_language)

(***************************************************************************)
(* C11: a request with the action "set_context_for_question" sends nothing *)
(* to the provider; it appends two turns, the user turn and then an        *)
(* assistant turn that holds the bracketed marker; it posts Info,          *)
(* PromptTokensUpdate and FinalTokenCounts (completion 0, total = prompt)  *)
(* with the tokens of its own message alone, and then one Sentinel, and    *)
(* nothing else.                                                           *)
(***************************************************************************)
IsSetContext(w) == Started(w) /\ args[w].specific_action = "set_context_for_question"

OwnTokens(w) ==
    SumSeq([i \in 1..Len(args[w].current_user_message_parts) |->
              IF args[w].current_user_message_parts[i].type = "text"
              THEN TextLen(args[w].current_user_message_parts[i].text) \div 4
              ELSE 0])

C11_SetContextInProcess ==
    \A w \in Workers :
        IsSetContext(w) =>
            /\ pc[w] \in {"start", "ctx_assistant", "ctx_post", "done"}
            /\ frame[w].exc = "none"
            /\ Returned(w) =>
                  Posted(w) = <<Info(INFO_MSG),
                                PromptTokensUpdate(OwnTokens(w)),
                                FinalTokenCounts(OwnTokens(w), 0, OwnTokens(w)),
                                Sentinel>>
            /\ (Returned(w) /\ ~cleared) =>
                  \E i, j \in 1..Len(context_history) :
                      /\ i < j
                      /\ TurnsOf(w) = {i, j}
                      /\ context_history[i].role = "user"
                      /\ context_history[i].content.kind = "parts"
                      /\ context_history[i].content.parts = args[w].current_user_message_parts
                      /\ context_history[j].role = "assistant"
                      /\ context_history[j].content.kind = "str"
                      /\ context_history[j].content.text =
                            <<"[", "Context set. Please type your question to the LLM.", "]">>

\* A context-setting request with tokens to count has returned.
C11_Witness ==
    \E w \in Workers :
        /\ IsSetContext(w)
        /\ Returned(w)
        /\ ~cleared
        /\ OwnTokens(w) > 0
        /\ Len(context_history) = 2

(***************************************************************************)
(* C12: a poll that finds the hotkey pressed triggers the callback if and  *)
(* only if more than 1.2 s have passed since the last trigger; the time of *)
(* the last trigger changes only when the callback is triggered, and       *)
(* becomes the time of the poll; any two consecutive triggers are more     *)
(* than 1.2 s apart.                                                       *)
(***************************************************************************)
Triggered == Len(triggers') = Len(triggers) + 1

C12_Debounce ==
    /\ [](\A i \in 2..Len(triggers) :
              triggers[i].at - triggers[i - 1].at > 12)
    /\ [][/\ \A t \in Listeners :
               lpc[t] = "poll" /\ lpc'[t] = "sleep" =>
                   (Triggered <=> key_down /\ now - last_pressed_time > 12)
          /\ triggers' # triggers =>
                /\ Triggered
                /\ SubSeq(triggers', 1, Len(triggers)) = triggers
                /\ triggers'[Len(triggers')].at = now
                /\ last_pressed_time' = now
          /\ last_pressed_time' # last_pressed_time => Triggered]_vars

\* Two presses, found 1.3 s apart, have triggered the callback twice.
C12_Witness ==
    /\ Len(triggers) = 2
    /\ triggers[1].press # triggers[2].press
    /\ triggers[2].at - triggers[1].at = 13

(***************************************************************************)
(* C13: while the hotkey is held down without a release (one press,        *)
(* however long), the callback is triggered at most once: no two triggers  *)
(* belong to the same press.                                               *)
(***************************************************************************)
C13_OneTriggerPerPress ==
    \A i, j \in 1..Len(triggers) :
        triggers[i].press = triggers[j].press => i = j

(***************************************************************************)
(* C14: loading a hotkey that is missing or does not parse leaves          *)
(* _is_valid_hotkey false and starts no thread; start_listener then        *)
(* returns False and starts no thread; a polling thread is started, and    *)
(* enters its loop, only with a hotkey that is valid and parses.           *)
(***************************************************************************)
InvalidConfigured == ~ParsesAsHotkey(hotkey_config)
NoThreadStarted == lpc' = lpc /\ listener_thread' = listener_thread
Listening == \E t \in Listeners : is_alive(t)

C14_ValidHotkeyOnly ==
    [][/\ update_hotkey_from_config /\ InvalidConfigured =>
             /\ ~is_valid_hotkey'
             /\ hotkey_str' = None
             /\ NoThreadStarted
       /\ start_listener /\ (~is_valid_hotkey \/ (~Listening /\ InvalidConfigured)) =>
             /\ returned' = "False"
             /\ ~is_valid_hotkey'
             /\ NoThreadStarted
       /\ \A t \in Listeners :
             /\ lpc[t] = "unborn" /\ lpc'[t] # "unborn" =>
                   is_valid_hotkey' /\ ParsesAsHotkey(hotkey_str')
             /\ lpc[t] = "start" /\ lpc'[t] = "loop" =>
                   is_valid_hotkey /\ ParsesAsHotkey(hotkey_str)]_vars

\* The polling thread has ended, a malformed hotkey was loaded and the
\* start_listener that followed returned False and started no thread.
C14_Witness ==
    /\ hotkey_config = <<"ctrl", "">>
    /\ ~is_valid_hotkey
    /\ returned = "False"
    /\ lpc[1] = "done_critical"
    /\ lpc[2] = "unborn"
    /\ listener_thread = 1

(***************************************************************************)
(* C15: start_listener called while the polling thread is alive returns    *)
(* False, starts no second thread and leaves the running one alone.        *)
(***************************************************************************)
C15_StartWhileListening ==
    [][start_listener /\ listener_thread # NoThread /\ is_alive(listener_thread) =>
          /\ returned' = "False"
          /\ NoThreadStarted]_vars

(***************************************************************************)
(* C16: once the stop event is set, a polling thread that comes to the     *)
(* loop's check leaves the loop there, and every polling thread that is    *)
(* alive eventually ends, wherever it is in the loop; stop_listener        *)
(* always returns, and drops the reference to the thread, whether or not   *)
(* the thread has ended.                                                   *)
(***************************************************************************)
C16_StopEndsLoop ==
    /\ \A t \in Listeners : (app_stop_event /\ is_alive(t)) ~> ~is_alive(t)
    /\ (gui_pc = "joining") ~> (gui_pc = "idle" /\ listener_thread = NoThread)
    /\ [][\A t \in Listeners :
             app_stop_event /\ lpc[t] = "loop" /\ lpc'[t] # "loop" =>
                 lpc'[t] = "done"]_vars

\* stop_listener has returned while the polling thread, the stop event set,
\* is still in the wait that follows an error.
C16_Witness ==
    /\ app_stop_event
    /\ gui_pc = "idle"
    /\ listener_thread = NoThread
    /\ lpc[1] = "error_wait"

(***************************************************************************)
(* C17: shutdown stops the polling: once shutdown has been called (the     *)
(* closing of the window sets the stop event and calls it), no hotkey      *)
(* callback is triggered any more, every polling thread eventually ends,   *)
(* and the call ends no request thread itself.                             *)
(***************************************************************************)
C17_ShutdownStopsListener ==
    /\ [][app_stop_event => triggers' = triggers]_vars
    /\ [][on_closing => pc' = pc]_vars
    /\ app_stop_event ~> (\A t \in Listeners : ~is_alive(t))

(***************************************************************************)
(* C18: the stop event, once set, stays set; only the closing of the       *)
(* window (the shutdown path) sets it; no request thread, capture thread,  *)
(* polling thread or other operation of the engine sets or clears it.      *)
(***************************************************************************)
C18_StopEventMonotonic ==
    [][/\ app_stop_event => app_stop_event'
       /\ app_stop_event' # app_stop_event => on_closing
       /\ (\/ \E w \in Workers : stream_llm_response(w)
           \/ \E c \in Captures : perform_screenshot_and_ocr(c)
           \/ \E t \in Listeners : listener_worker(t)
           \/ EngineOps)
             => app_stop_event' = app_stop_event]_vars

\* With the stop event set, a request was cancelled, a capture thread has
\* returned and the polling thread has left its loop.
C18_Witness ==
    /\ app_stop_event
    /\ \E w \in Workers : Returned(w) /\ Cancelled(w)
    /\ \E c \in Captures : cpc[c].pc = "done"
    /\ \E t \in Listeners : lpc[t] = "done"

(***************************************************************************)
(* C19: an ImportError, or an exception whose message mentions "hook" or   *)
(* "permissions", raised in the polling loop ends the polling thread and   *)
(* nothing else: the engine's state, its requests, the capture threads,    *)
(* the GUI thread and any other polling thread are left as they were.      *)
(* Any other exception leaves the polling thread alive, waiting to poll    *)
(* again.                                                                  *)
(***************************************************************************)
C19_CriticalErrorEndsListenerOnly ==
    [][\A t \in Listeners : \A e \in PollErrors :
          Listener_poll_raises(t, e) =>
              /\ IF e \in {"ImportError", "hook", "permissions"}
                 THEN ~is_alive(t)'
                 ELSE is_alive(t)' /\ lpc'[t] = "error_wait"
              /\ \A u \in Listeners \ {t} : lpc'[u] = lpc[u]
              /\ UNCHANGED <<core_vars, gui_pc, cpc, listener_thread, triggers>>]_vars

\* The polling thread was ended by an error; a request has streamed its
\* response to the end all the same.
C19_Witness ==
    /\ \E t \in Listeners : lpc[t] = "done_critical"
    /\ \E w \in Workers : Streamed(w)
    /\ ~app_stop_event

(***************************************************************************)
(* C20: a capture thread captures first; when the capture fails (an error  *)
(* or no image) it posts Error and then HideCaptureActions, extracts no    *)
(* text and posts no CapturedContent; when the capture and the extraction  *)
(* succeed (a failed extraction counts as success when vision is enabled,  *)
(* the text being empty then) it posts exactly one CapturedContent, with   *)
(* the captured image, and neither Error nor HideCaptureActions; it never  *)
(* posts a Sentinel and starts no request.                                 *)
(***************************************************************************)
CaptureFailed(c) == ~Truthy(cpc[c].image_pil)
CaptureSucceeded(c) ==
    /\ ~CaptureFailed(c)
    /\ cpc[c].ocr_attempted
    /\ ~Truthy(cpc[c].err_msg_ocr) \/ config.enable_vision_if_available

C20_CaptureWorkerPosts ==
    /\ [](\A c \in Captures :
            LET q == gui_queue[c]
            IN  /\ \A i \in 1..Len(q) : q[i].type # "Sentinel"
                /\ cpc[c].ocr_attempted => ~CaptureFailed(c)
                /\ cpc[c].pc = "done" =>
                      IF CaptureSucceeded(c)
                      THEN /\ Len(q) = 1
                           /\ q[1].type = "CapturedContent"
                           /\ q[1].image_pil = cpc[c].image_pil
                           /\ Truthy(cpc[c].err_msg_ocr) => q[1].ocr_text = <<>>
                      ELSE /\ Len(q) = 2
                           /\ q[1].type = "Error"
                           /\ q[2] = HideCaptureActions)
    /\ [][\A c \in Captures :
             perform_screenshot_and_ocr(c) =>
                 UNCHANGED <<pc, args, context_history>>]_vars

\* A capture thread whose capture failed has returned without extracting
\* text, its two messages posted.
C20_Witness ==
    \E c \in Captures :
        /\ cpc[c].pc = "done"
        /\ CaptureFailed(c)
        /\ ~cpc[c].ocr_attempted
        /\ Len(gui_queue[c]) = 2

(***************************************************************************)
(* C21: when the capture succeeds and the extraction of the text fails,    *)
(* the capture thread posts, with vision enabled, one CapturedContent that *)
(* holds an empty text and the captured image, and no Error; with vision   *)
(* disabled it posts the Error of the extraction and then                  *)
(* HideCaptureActions, and no CapturedContent.                             *)
(***************************************************************************)
OcrFailed(c) == cpc[c].pc = "done" /\ cpc[c].ocr_attempted /\ Truthy(cpc[c].err_msg_ocr)

C21_OcrFailure ==
    \A c \in Captures :
        OcrFailed(c) =>
            IF config.enable_vision_if_available
            THEN gui_queue[c] = <<CapturedContent(<<>>, Img)>>
            ELSE gui_queue[c] = <<Error(cpc[c].err_msg_ocr), HideCaptureActions>>

\* With vision enabled, a capture whose text could not be extracted was
\* posted all the same.
C21_Witness ==
    \E c \in Captures :
        /\ OcrFailed(c)
        /\ config.enable_vision_if_available
        /\ cpc[c].image_pil = Img
        /\ Len(gui_queue[c]) = 1

(***************************************************************************)
(* C22: clear_all_context_and_buffers leaves the history empty and the     *)
(* buffered text and image unset, and posts, in this order, one Info, one  *)
(* PromptTokensUpdate with count 0 and one FinalTokenCounts with prompt,   *)
(* completion and total 0; it posts no Sentinel and nothing else.          *)
(***************************************************************************)
C22_ClearHistory ==
    [][clear_all_context_and_buffers =>
          /\ context_history' = <<>>
          /\ ocr_text_buffer' = None
          /\ last_image_buffer' = None
          /\ gui_queue'[ENGINE] =
                gui_queue[ENGINE] \o
                    <<[type |-> "Info", content |-> <<"Context and buffers cleared.">>],
                      [type |-> "PromptTokensUpdate", count |-> 0],
                      [type |-> "FinalTokenCounts", prompt_tokens |-> 0,
                       completion_tokens |-> 0, total_tokens |-> 0]>>
          /\ \A p \in Producers \ {ENGINE} : gui_queue'[p] = gui_queue[p]]_vars

\* A history of two turns and the buffers of a captured action were cleared.
C22_Witness ==
    /\ cleared
    /\ context_history = <<>>
    /\ ocr_text_buffer = None
    /\ last_image_buffer = None
    /\ \E w \in Workers : Completed(w) /\ Truthy(args[w].pil_image_obj)

(***************************************************************************)
(* C23: without a tokenizer the count of the empty string is 0, and so is  *)
(* the count of every string that holds nothing but whitespace, whatever   *)
(* its length.                                                             *)
(***************************************************************************)
WhitespaceOnly(text) == text # None /\ \A i \in 1..Len(text) : IsSpace(text[i])

C23_WhitespaceCountsZero ==
    (tok.called /\ tokenizer = NoTokenizer /\ WhitespaceOnly(tok.text_to_tokenize))
        => tok.result = 0

(***************************************************************************)
(* C26: without a tokenizer the count of a text is its length divided by   *)
(* 4 and rounded up, whatever the length.                                  *)
(***************************************************************************)
CeilDiv4(n) == (n + 3) \div 4

C26_FallbackIsCeiling ==
    (tok.called /\ tokenizer = NoTokenizer /\ tok.text_to_tokenize # None)
        => tok.result = CeilDiv4(Len(tok.text_to_tokenize))

(***************************************************************************)
(* C24: called with the default quality 75, convert_image_to_base64_str    *)
(* saves the image again at most 7 times and returns, whatever the sizes   *)
(* of the saved images and the budget, also when no save fits the budget.  *)
(***************************************************************************)
ReEncodes == IF conv.encodes = <<>> THEN 0 ELSE Len(conv.encodes) - 1

C24_AtMostSevenReEncodes ==
    /\ [](ReEncodes <= 7)
    /\ [](conv.pc = "done" => conv.data_url.mime_type # "none")
    /\ (conv.pc = "start") ~> (conv.pc = "done")

\* The call has returned after 7 more saves, the last still over the budget.
C24_Witness ==
    /\ conv.pc = "done"
    /\ ReEncodes = 7
    /\ conv.buffer = "jpeg"
    /\ conv.img_byte_size > conv.max_size_kb * 1024

(***************************************************************************)
(* C25: called with the default quality 75, convert_image_to_base64_str    *)
(* never saves the image at a quality below 10, and the image it returns   *)
(* was saved at a quality of at least 10.                                  *)
(***************************************************************************)
C25_QualityFloor ==
    /\ \A i \in 1..Len(conv.encodes) : conv.encodes[i] >= 10
    /\ (conv.pc = "done" /\ conv.data_url.mime_type = "image/jpeg")
          => conv.data_url.buffer_quality >= 10

(***************************************************************************)
(* C27: an invocation that streamed to its normal end reports as total the *)
(* larger of prompt + completion tokens and M, the largest usage figure    *)
(* any payload of the stream carried (0 without one); the total is never   *)
(* below prompt + completion, and the figure kept never decreases.         *)
(***************************************************************************)
MaxOf(S) == CHOOSE m \in S : \A x \in S : x <= m

C27_TotalIsMaxOfUsage ==
    /\ [](\A w \in Workers :
            Streamed(w) =>
                LET q == Posted(w)
                    counts == q[Len(q) - 2]
                    M == MaxOf(frame[w].usage_seen \cup {0})
                    calculated == counts.prompt_tokens + counts.completion_tokens
                IN  /\ counts.type = "FinalTokenCounts"
                    /\ CountType(q, "FinalTokenCounts") = 1
                    /\ counts.prompt_tokens = frame[w].prompt_tokens
                    /\ counts.completion_tokens = frame[w].completion_tokens_calculated
                    /\ counts.total_tokens = MaxOf({calculated, M})
                    /\ counts.total_tokens >= calculated)
    /\ [](\A w \in Workers :
            frame[w].server_reported_total_tokens = MaxOf(frame[w].usage_seen \cup {0}))
    /\ [][\A w \in Workers :
            frame'[w].server_reported_total_tokens
                >= frame[w].server_reported_total_tokens]_vars

\* The stream carried the usage figures 9 and 3 and the total reported is 9,
\* above the tokens counted.
C27_Witness ==
    \E w \in Workers :
        /\ Streamed(w)
        /\ frame[w].usage_seen = {3, 9}
        /\ Posted(w)[Len(Posted(w)) - 2].total_tokens = 9
        /\ frame[w].prompt_tokens + frame[w].completion_tokens_calculated < 9

\* The tokens counted exceed the only usage figure of the stream.
C27_WitnessCalculated ==
    \E w \in Workers :
        /\ Streamed(w)
        /\ frame[w].usage_seen = {3}
        /\ Posted(w)[Len(Posted(w)) - 2].total_tokens > 3

(***************************************************************************)
(* C28: the request starts with a system turn exactly when a system prompt *)
(* is configured and the history is empty or the turn before the request   *)
(* is an assistant turn whose text begins with "[", the marker of the      *)
(* context-setting action; the system turn holds the avatar override       *)
(* whenever the override is non-empty, else the global prompt; no other    *)
(* turn is a system turn.                                                  *)
(***************************************************************************)
\* The request of thread w has been built.
Built(w) == Started(w) /\ frame[w].api_payload_messages # <<>>

SystemTurns(w) ==
    {i \in 1..Len(frame[w].api_payload_messages) :
        frame[w].api_payload_messages[i].role = "system"}

NewLogicalConversation ==
    \/ context_history = <<>>
    \/ LET previous == context_history[Len(context_history)]
       IN  /\ previous.role = "assistant"
           /\ previous.content.kind = "str"
           /\ previous.content.text # <<>>
           /\ Head(previous.content.text) = "["

NonEmpty(text) == text # <<>>
NonBlank(text) == \E i \in 1..Len(text) : ~IsSpace(text[i])

\* The system turn the request has to start with, for a test that tells
\* whether the override is to be used.
SystemTurnRule(w, OverrideIsSet(_)) ==
    LET override == config.avatar_system_prompt_override
        global == config.system_prompt_global
        chosen == IF OverrideIsSet(override) THEN override ELSE global
    IN  /\ SystemTurns(w) =
              IF (NonBlank(override) \/ NonBlank(global)) /\ NewLogicalConversation
              THEN {1} ELSE {}
        /\ SystemTurns(w) # {} =>
              frame[w].api_payload_messages[1].content = StrContent(Strip(chosen))

C28_SystemTurn == \A w \in Workers : Built(w) => SystemTurnRule(w, NonEmpty)

\* C28 as amended: the override is used whenever it holds more than
\* whitespace.
C28_SystemTurnNonBlank == \A w \in Workers : Built(w) => SystemTurnRule(w, NonBlank)

\* After a context-setting pair the request starts with the override, which
\* is configured beside a global prompt.
C28_Witness ==
    \E w \in Workers :
        /\ Built(w)
        /\ Len(context_history) = 4
        /\ context_history[4].content = StrContent(INFO_MSG)
        /\ NonBlank(config.system_prompt_global)
        /\ frame[w].api_payload_messages[1] =
              [role |-> "system", content |-> StrContent(<<"Be brief.">>)]

(***************************************************************************)
(* C29: a payload of the stream that is no JSON is skipped: the thread     *)
(* stays in the loop, posts nothing and flags no error; the deltas of the  *)
(* later payloads are posted as Chunks and accumulated, and the thread     *)
(* that ends its stream appends its two turns, which stay in a history     *)
(* nobody clears, and posts FinalTokenCounts, FullResponse and the         *)
(* Sentinel, and no Error.                                                 *)
(***************************************************************************)
Skipped(w) == frame[w].skipped_at > 0

\* The contents of the Chunks of a queue, in order.
RECURSIVE ChunkText(_)
ChunkText(q) ==
    IF q = <<>> THEN <<>>
    ELSE (IF Head(q).type = "Chunk" THEN Head(q).content ELSE <<>>)
         \o ChunkText(Tail(q))

C29_BadPayloadSkipped ==
    /\ [][\A w \in Workers :
            frame'[w].skipped_at # frame[w].skipped_at =>
                /\ pc'[w] = "iter_lines"
                /\ frame'[w].exc = "none"
                /\ frame'[w].full_response_text = frame[w].full_response_text
                /\ gui_queue'[w] = gui_queue[w]
                /\ context_history' = context_history]_vars
    /\ [](\A w \in Workers :
            Skipped(w) =>
                /\ frame[w].full_response_text = ChunkText(Posted(w))
                /\ CountType(Posted(w), "Error") =
                      IF frame[w].exc # "none" /\ pc[w] \in {"finally", "done"}
                      THEN 1 ELSE 0)
    /\ [](\A w \in Workers :
            Skipped(w) /\ Returned(w) /\ ~Cancelled(w) /\ ~Failed(w) =>
                LET q == Posted(w)
                    n == Len(q)
                IN  /\ ~cleared => Cardinality(TurnsOf(w)) = 2
                    /\ q[n - 2].type = "FinalTokenCounts"
                    /\ q[n - 1] = FullResponse(ChunkText(q))
                    /\ q[n] = Sentinel)

\* A thread dropped a payload, posted the delta of a later one and ended
\* its stream.
C29_Witness ==
    \E w \in Workers :
        /\ Streamed(w)
        /\ Skipped(w)
        /\ Cardinality(TurnsOf(w)) = 2
        /\ \E i \in frame[w].skipped_at..Len(Posted(w)) : Posted(w)[i].type = "Chunk"
        /\ Posted(w)[Len(Posted(w)) - 1] = FullResponse(<<"P", "a", "r", "i", "s">>)

(***************************************************************************)
(* C30: update_hotkey_from_config, called while the polling thread runs,   *)
(* does not change the hotkey the thread polls: keyboard.is_pressed is     *)
(* still asked for the hotkey the thread was started with, so a thread at  *)
(* its poll always has a hotkey to ask for.                                *)
(***************************************************************************)
\* The polling thread is in its loop.
ListenerRunning ==
    /\ listener_thread # NoThread
    /\ lpc[listener_thread] \in {"loop", "poll", "sleep", "error_wait"}

\* What keyboard.is_pressed is called with by a poll in this state (line 92).
PolledHotkey == hotkey_str

C30_RunningListenerKeepsHotkey ==
    /\ [][(update_hotkey_from_config /\ ListenerRunning)
            => PolledHotkey' = PolledHotkey]_vars
    /\ [](\A t \in Listeners : lpc[t] = "poll" => Truthy(PolledHotkey))

(***************************************************************************)
(* C31: at most one polling thread is alive at any time, after any         *)
(* sequence of start_listener, stop_listener and update_hotkey_from_config *)
(* and whether or not the stop event is set.                               *)
(***************************************************************************)
AliveListeners == {t \in Listeners : is_alive(t)}

C31_AtMostOneListener == Cardinality(AliveListeners) <= 1

(***************************************************************************)
(* C32: whenever a polling thread is alive, _is_valid_hotkey is true and   *)
(* _hotkey_str is a hotkey that parses, also after the hotkey was loaded   *)
(* again from a configuration that has become invalid.                     *)
(***************************************************************************)
C32_ListeningImpliesValid ==
    Listening => /\ is_valid_hotkey
                 /\ hotkey_str # None
                 /\ ParsesAsHotkey(hotkey_str)

(***************************************************************************)
(* C33: a thread whose loop ended at the end marker, the stop event not    *)
(* seen by the loop, completes its request: it posts no cancellation and   *)
(* goes on to append its two turns and to post FinalTokenCounts and        *)
(* FullResponse, also when the stop event is set after the marker was      *)
(* read.  (In SpecMarker a thread that is past the loop and saw no stop    *)
(* event in it has read the marker.)                                       *)
(***************************************************************************)
C33_MarkerThenComplete ==
    [][\A w \in Workers :
          pc[w] = "after_loop" /\ observed[w] = 0 /\ pc'[w] # "after_loop" =>
              /\ pc'[w] = "append_user"
              /\ observed'[w] = 0
              /\ Posted(w)' = Posted(w)]_vars

(***************************************************************************)
(* C34: the message list a completed request sent holds every turn that    *)
(* precedes the request's own user turn in the history, whatever the       *)
(* interleaving of concurrent requests.                                    *)
(***************************************************************************)
InPayload(w, turn) ==
    \E j \in 1..Len(frame[w].api_payload_messages) :
        /\ frame[w].api_payload_messages[j].role = turn.role
        /\ frame[w].api_payload_messages[j].content = PartsContent(HistoryParts(turn))

C34_PayloadHoldsEarlierTurns ==
    \A w \in Workers :
        Streamed(w) =>
            \A u \in TurnsOf(w) :
                context_history[u].role = "user" =>
                    \A i \in 1..(u - 1) : InPayload(w, context_history[i])

(***************************************************************************)
(* C35: once clear_all_context_and_buffers has returned the history stays  *)
(* empty until a request started after the clear completes: a thread that  *)
(* was running when the history was cleared appends nothing to it.  (In    *)
(* SpecClear no request is started after the clear.)                       *)
(***************************************************************************)
C35_ClearedStaysEmpty == cleared => context_history = <<>>

(***************************************************************************)
(* C36: once the stop event is set no turn is appended to the history any  *)
(* more, by no request that is started or still running then, whatever its *)
(* action.                                                                 *)
(***************************************************************************)
C36_NoAppendAfterStop ==
    [][app_stop_event => Len(context_history') <= Len(context_history)]_vars

(***************************************************************************)
(* C37: with vision disabled in the configuration no message list sent to  *)
(* the provider holds an image part, in any of its turns, also when        *)
(* actions on a captured image came before the request.                    *)
(***************************************************************************)
HasImagePart(message) ==
    /\ message.content.kind = "parts"
    /\ \E k \in 1..Len(message.content.parts) :
          message.content.parts[k].type = "image_url"

C37_NoImageWithoutVision ==
    ~config.enable_vision_if_available =>
        \A w \in Workers :
            \A j \in 1..Len(frame[w].api_payload_messages) :
                ~HasImagePart(frame[w].api_payload_messages[j])

(***************************************************************************)
(* C38: the live completion tokens of the Chunks of an invocation do not   *)
(* decrease from one Chunk to the next, each is the sum of the token       *)
(* counts of the deltas posted so far, and the completion tokens of the    *)
(* FinalTokenCounts of a stream that completes are those of the last       *)
(* Chunk, 0 when there is none.                                            *)
(***************************************************************************)
\* The sum of the token counts of the deltas of the Chunks of a queue.
RECURSIVE DeltaTokens(_)
DeltaTokens(q) ==
    IF q = <<>> THEN 0
    ELSE (IF Head(q).type = "Chunk" THEN count_text_tokens(Head(q).content) ELSE 0)
         + DeltaTokens(Tail(q))

ChunksOf(w) == {i \in 1..Len(Posted(w)) : Posted(w)[i].type = "Chunk"}

C38_LiveCompletionTokens ==
    \A w \in Workers :
        LET q == Posted(w)
        IN  /\ \A i \in ChunksOf(w) :
                  /\ q[i].completion_tokens_live = DeltaTokens(SubSeq(q, 1, i))
                  /\ \A k \in ChunksOf(w) :
                        k < i => q[k].completion_tokens_live <= q[i].completion_tokens_live
            /\ Streamed(w) =>
                  q[Len(q) - 2].completion_tokens =
                      IF ChunksOf(w) = {} THEN 0
                      ELSE q[MaxOf(ChunksOf(w))].completion_tokens_live

\* A stream completed after two Chunks, of a delta that counts 1 and of one
\* that counts 0.
C38_Witness ==
    \E w \in Workers :
        /\ Streamed(w)
        /\ Cardinality(ChunksOf(w)) = 2
        /\ \E i \in ChunksOf(w) : count_text_tokens(Posted(w)[i].content) = 0
        /\ Posted(w)[Len(Posted(w)) - 2].completion_tokens = 1

(***************************************************************************)
(* C39: when a save at a reduced quality fails in the quality loop, the    *)
(* loop stops and the data URL returned carries the image as the most      *)
(* recent save that succeeded left it: the whole JPEG at the quality of    *)
(* the attempt before the failed one.                                      *)
(***************************************************************************)
C39_LastSuccessfulEncode ==
    [][conv.pc = "break" /\ conv'.pc = "done" =>
          conv'.data_url = DataUrl("image/jpeg", "jpeg",
                                   conv.encodes[Len(conv.encodes) - 1])]_vars

=============================================================================
